---- MODULE Spec2Model ----
(***************************************************************************)
(* State-machine model of the rate-limited API gateway:                    *)
(*   - the token-bucket rate limiter  (api_gateway/rate_limiter.py)        *)
(*   - the circuit breaker            (api_gateway/circuit_breaker.py)     *)
(*                                                                         *)
(* Time is the monotonic clock, counted in whole ticks; refill rates are   *)
(* tokens per tick, so token counts stay whole numbers.  Every limiter     *)
(* and breaker method runs its whole body under `async with self._lock`    *)
(* and never awaits inside it, so each method is one atomic step; the      *)
(* interleavings of concurrent callers are the orders of these steps.      *)
(***************************************************************************)
EXTENDS Integers, Sequences, FiniteSets, TLC

(***************************************************************************)
(* Bounds of the model.                                                    *)
(***************************************************************************)
\* last tick of the monotonic clock
MaxTime == 3
\* most check calls counted in one burst (calls of one client at one instant)
MaxCalls == 4
\* largest max_idle_seconds handed to cleanup_inactive
MaxIdle == 1

Min(a, b) == IF a <= b THEN a ELSE b

(***************************************************************************)
(* models.py: ClientTier, RateLimitConfig.  The limiter is constructed     *)
(* with a tier -> config map that need not cover every tier (the tests     *)
(* configure FREE and PREMIUM only); BASIC is the unconfigured tier here.  *)
(***************************************************************************)
ClientTier == {"free", "basic", "premium"}
FREE == "free"

rate_configs ==
    [t \in {"free", "premium"} |->
        IF t = "free" THEN [tokens_per_second |-> 1, max_tokens |-> 2]
                      ELSE [tokens_per_second |-> 2, max_tokens |-> 3]]

\* self._rate_configs.get(tier, self._rate_configs[ClientTier.FREE])
ConfigFor(tier) ==
    IF tier \in DOMAIN rate_configs THEN rate_configs[tier] ELSE rate_configs[FREE]

Clients == {"a", "b"}
\* token costs of the endpoint table, scaled: 1 is the default cost, 3 is a
\* cost above the FREE capacity (as /api/v1/bulk's 20 is above FREE's 10)
Costs == {1, 3}

VARIABLES
    now,            \* time.monotonic()
    buckets,        \* RateLimiter._buckets: client_id -> TokenBucket
    client_tiers,   \* RateLimiter._client_tiers: client_id -> ClientTier
    ret,            \* what the last limiter call returned
    excess,         \* history: per client, max over s of (cost admitted in [s, now] - refill_rate * (now - s))
    burst,          \* history: per client, the calls of the current burst
    last_request    \* history: per client, the time of its last check call (-1: none
                    \* since the client was last removed)

limiterVars == <<buckets, client_tiers, ret, excess, burst, last_request>>

(***************************************************************************)
(* TokenBucket                                                             *)
(***************************************************************************)
\* TokenBucket.refill with an uncapped sum (mutant)
refill_uncapped(b, t) ==
    [b EXCEPT !.tokens = b.tokens + (t - b.last_refill) * b.refill_rate,
              !.last_refill = t]

\* TokenBucket.refill at monotonic time t
refill(b, t) ==
    [b EXCEPT !.tokens = Min(b.max_tokens, b.tokens + (t - b.last_refill) * b.refill_rate),
              !.last_refill = t]

\* TokenBucket.consume that charges a rejected call too (mutant)
consume_charging_rejects(b, cost, t) ==
    LET r == refill(b, t) IN
    IF r.tokens >= cost
    THEN [bucket |-> [r EXCEPT !.tokens = r.tokens - cost], success |-> TRUE,
          retry_after |-> <<0, 1>>]
    ELSE [bucket |-> [r EXCEPT !.tokens = 0], success |-> FALSE,
          retry_after |-> <<cost - r.tokens, r.refill_rate>>]

\* TokenBucket.consume that admits without decrementing (mutant)
consume_no_decrement(b, cost, t) ==
    LET r == refill(b, t) IN
    IF r.tokens >= cost
    THEN [bucket |-> r, success |-> TRUE, retry_after |-> <<0, 1>>]
    ELSE [bucket |-> r, success |-> FALSE,
          retry_after |-> <<cost - r.tokens, r.refill_rate>>]

\* TokenBucket.consume that admits while any token is left (mutant)
consume_any_token(b, cost, t) ==
    LET r == refill(b, t) IN
    IF r.tokens > 0
    THEN [bucket |-> [r EXCEPT !.tokens = r.tokens - cost], success |-> TRUE,
          retry_after |-> <<0, 1>>]
    ELSE [bucket |-> r, success |-> FALSE,
          retry_after |-> <<cost - r.tokens, r.refill_rate>>]

\* TokenBucket.consume that needs more tokens than the cost (mutant)
consume_strict(b, cost, t) ==
    LET r == refill(b, t) IN
    IF r.tokens > cost
    THEN [bucket |-> [r EXCEPT !.tokens = r.tokens - cost], success |-> TRUE,
          retry_after |-> <<0, 1>>]
    ELSE [bucket |-> r, success |-> FALSE,
          retry_after |-> <<cost - r.tokens, r.refill_rate>>]

\* TokenBucket.consume: the bucket after the call, success, and retry_after as the
\* fraction <<tokens_needed, refill_rate>>
consume(b, cost, t) ==
    LET r == refill(b, t) IN
    IF r.tokens >= cost
    THEN [bucket |-> [r EXCEPT !.tokens = r.tokens - cost], success |-> TRUE,
          retry_after |-> <<0, 1>>]
    ELSE [bucket |-> r, success |-> FALSE,
          retry_after |-> <<cost - r.tokens, r.refill_rate>>]

\* TokenBucket.available_tokens: refills, then reads tokens
available_tokens(b, t) == refill(b, t)

(***************************************************************************)
(* RateLimiter                                                             *)
(***************************************************************************)
\* a new TokenBucket of a tier that starts empty (mutant)
NewBucket_empty(tier, t) ==
    [tokens |-> 0,
     max_tokens |-> ConfigFor(tier).max_tokens,
     refill_rate |-> ConfigFor(tier).tokens_per_second,
     last_refill |-> t]

\* a new TokenBucket of a tier: full, last_refill = now
NewBucket(tier, t) ==
    [tokens |-> ConfigFor(tier).max_tokens,
     max_tokens |-> ConfigFor(tier).max_tokens,
     refill_rate |-> ConfigFor(tier).tokens_per_second,
     last_refill |-> t]

\* RateLimiter._get_or_create_bucket: the bucket map and the tier map after it
get_or_create_bucket(bs, ts, c, tier, t) ==
    IF c \notin DOMAIN bs
    THEN [buckets |-> [x \in DOMAIN bs \cup {c} |-> IF x = c THEN NewBucket(tier, t) ELSE bs[x]],
          tiers |-> [x \in DOMAIN ts \cup {c} |-> IF x = c THEN tier ELSE ts[x]]]
    ELSE [buckets |-> bs, tiers |-> ts]

\* check_rate_limit, "Update tier if changed": capacity and rate of the new tier,
\* token count untouched
update_tier(b, stored, tier) ==
    IF stored # tier
    THEN [b EXCEPT !.max_tokens = ConfigFor(tier).max_tokens,
                   !.refill_rate = ConfigFor(tier).tokens_per_second]
    ELSE b

\* The value a limiter call returned, with the call it answers: allowed is the bool
\* result (check: allowed; status: known client; reset, remove: True), count is
\* check's token_cost, status's max_tokens or cleanup's number removed, and the
\* history fields before and changed record the client's token count when the call
\* began (-1: no bucket) and whether check found a different stored tier.
NoRet == [op |-> "none", client |-> "", allowed |-> FALSE, retry_after |-> <<0, 1>>,
          remaining |-> 0, count |-> 0, before |-> -1, changed |-> FALSE]

TokensOf(c) == IF c \in DOMAIN buckets THEN buckets[c].tokens ELSE -1

NoBurst == [valid |-> FALSE, adm |-> 0, rej |-> 0, cap |-> 0]

\* The burst history of client c after its check of `cost` under `tier`.  A burst is
\* the run of cost-1 checks of one client at one instant, at an unchanged tier, that
\* starts on a full bucket (a new one, or one found full when no burst is running):
\* cap is the capacity it started with, adm and rej count its admitted and rejected
\* calls.
BurstAfter(c, tier, cost, existed, changed, full, allowed) ==
    LET old == burst[c]
        start == ~existed \/ (full /\ ~old.valid)
        ok == cost = 1 /\ ~changed /\ (start \/ old.valid)
        base == IF start THEN [NoBurst EXCEPT !.cap = ConfigFor(tier).max_tokens] ELSE old
    IN IF ~ok THEN NoBurst
       ELSE [valid |-> TRUE,
             adm |-> base.adm + (IF allowed THEN 1 ELSE 0),
             rej |-> base.rej + (IF allowed THEN 0 ELSE 1),
             cap |-> base.cap]

\* RateLimiter.check_rate_limit(client_id, tier, token_cost)
check_rate_limit(c, tier, cost) ==
    /\ burst[c].adm + burst[c].rej < MaxCalls
    /\ LET existed == c \in DOMAIN buckets
           g == get_or_create_bucket(buckets, client_tiers, c, tier, now)
           changed == g.tiers[c] # tier
           b1 == update_tier(g.buckets[c], g.tiers[c], tier)
           full == refill(b1, now).tokens = b1.max_tokens
           r == consume(b1, cost, now)
           b2 == available_tokens(r.bucket, now)
       IN /\ buckets' = [g.buckets EXCEPT ![c] = b2]
          /\ client_tiers' = [g.tiers EXCEPT ![c] = tier]
          /\ ret' = [op |-> "check", client |-> c, allowed |-> r.success,
                     retry_after |-> r.retry_after, remaining |-> b2.tokens,
                     count |-> cost, before |-> TokensOf(c), changed |-> changed]
          /\ excess' = [excess EXCEPT ![c] =
                           (IF changed \/ ~existed THEN 0 ELSE @)
                           + (IF r.success THEN cost ELSE 0)]
          /\ burst' = [burst EXCEPT ![c] =
                           BurstAfter(c, tier, cost, existed, changed, full, r.success)]
    /\ last_request' = [last_request EXCEPT ![c] = now]
    /\ UNCHANGED now

\* RateLimiter.get_client_status(client_id): None for an unknown client
get_client_status(c) ==
    /\ IF c \in DOMAIN buckets
       THEN LET b == available_tokens(buckets[c], now) IN
            /\ buckets' = [buckets EXCEPT ![c] = b]
            /\ ret' = [NoRet EXCEPT !.op = "status", !.client = c, !.allowed = TRUE,
                                    !.remaining = b.tokens, !.count = b.max_tokens]
       ELSE /\ buckets' = buckets
            /\ ret' = [NoRet EXCEPT !.op = "status", !.client = c]
    /\ UNCHANGED <<now, client_tiers, excess, burst, last_request>>

\* RateLimiter.reset_client that refreshes last_refill only (mutant)
reset_client_stale(c) ==
    /\ IF c \in DOMAIN buckets
       THEN /\ buckets' = [buckets EXCEPT ![c].last_refill = now]
            /\ ret' = [NoRet EXCEPT !.op = "reset", !.client = c, !.allowed = TRUE,
                                    !.before = TokensOf(c)]
       ELSE /\ buckets' = buckets
            /\ ret' = [NoRet EXCEPT !.op = "reset", !.client = c]
    /\ excess' = [excess EXCEPT ![c] = 0]
    /\ burst' = [burst EXCEPT ![c] = NoBurst]
    /\ UNCHANGED <<now, client_tiers, last_request>>

\* RateLimiter.reset_client(client_id)
reset_client(c) ==
    /\ IF c \in DOMAIN buckets
       THEN /\ buckets' = [buckets EXCEPT ![c].tokens = buckets[c].max_tokens,
                                          ![c].last_refill = now]
            /\ ret' = [NoRet EXCEPT !.op = "reset", !.client = c, !.allowed = TRUE,
                                    !.before = TokensOf(c)]
       ELSE /\ buckets' = buckets
            /\ ret' = [NoRet EXCEPT !.op = "reset", !.client = c]
    /\ excess' = [excess EXCEPT ![c] = 0]
    /\ burst' = [burst EXCEPT ![c] = NoBurst]
    /\ UNCHANGED <<now, client_tiers, last_request>>

\* dropping keys from a dict that drops every key once one is dropped (mutant)
Without_every(d, ks) == IF ks \cap DOMAIN d = {} THEN d ELSE << >>

\* `del d[k]` / `d.pop(k, None)` for every k in ks
Without(d, ks) == [x \in DOMAIN d \ ks |-> d[x]]

\* RateLimiter.remove_client(client_id)
remove_client(c) ==
    /\ IF c \in DOMAIN buckets
       THEN /\ buckets' = Without(buckets, {c})
            /\ client_tiers' = Without(client_tiers, {c})
            /\ ret' = [NoRet EXCEPT !.op = "remove", !.client = c, !.allowed = TRUE]
       ELSE /\ UNCHANGED <<buckets, client_tiers>>
            /\ ret' = [NoRet EXCEPT !.op = "remove", !.client = c]
    /\ excess' = [excess EXCEPT ![c] = 0]
    /\ burst' = [burst EXCEPT ![c] = NoBurst]
    /\ last_request' = [last_request EXCEPT ![c] = -1]
    /\ UNCHANGED now

\* RateLimiter.cleanup_inactive(max_idle_seconds)
cleanup_inactive(max_idle) ==
    LET to_remove == {c \in DOMAIN buckets : now - buckets[c].last_refill > max_idle} IN
    /\ buckets' = Without(buckets, to_remove)
    /\ client_tiers' = Without(client_tiers, to_remove)
    /\ ret' = [NoRet EXCEPT !.op = "cleanup", !.count = Cardinality(to_remove)]
    /\ excess' = [c \in Clients |-> IF c \in to_remove THEN 0 ELSE excess[c]]
    /\ burst' = [c \in Clients |-> IF c \in to_remove THEN NoBurst ELSE burst[c]]
    /\ last_request' = [c \in Clients |->
                          IF c \in to_remove THEN -1 ELSE last_request[c]]
    /\ UNCHANGED now

\* the monotonic clock advances by one tick
Tick ==
    /\ now < MaxTime
    /\ now' = now + 1
    /\ excess' = [c \in Clients |->
                    IF c \in DOMAIN buckets
                    THEN (IF excess[c] >= buckets[c].refill_rate
                          THEN excess[c] - buckets[c].refill_rate ELSE 0)
                    ELSE 0]
    /\ burst' = [c \in Clients |-> NoBurst]
    /\ UNCHANGED <<buckets, client_tiers, ret, last_request>>

Check == \E c \in Clients, tier \in ClientTier, cost \in Costs : check_rate_limit(c, tier, cost)
Status == \E c \in Clients : get_client_status(c)
Reset == \E c \in Clients : reset_client(c)
Remove == \E c \in Clients : remove_client(c)
Cleanup == \E max_idle \in 0..MaxIdle : cleanup_inactive(max_idle)

(***************************************************************************)
(* CircuitBreaker (circuit_breaker.py).  A breaker is the record           *)
(*   [state, stats, half_open_count, config]                               *)
(* with stats the CircuitStats counters; last_failure_time is -1 for None. *)
(* CircuitStats.last_success_time and state_changed_at are written and     *)
(* never read by the breaker, and are left out.  The methods are operators *)
(* on that record, at monotonic time t.                                    *)
(***************************************************************************)
CLOSED == "closed"
OPEN == "open"
HALF_OPEN == "half_open"

\* CircuitStats()
NewStats == [total_requests |-> 0, successful_requests |-> 0, failed_requests |-> 0,
             consecutive_failures |-> 0, consecutive_successes |-> 0,
             last_failure_time |-> -1]

\* CircuitBreaker.__init__(service_name, config)
NewBreaker(cfg) == [state |-> CLOSED, stats |-> NewStats, half_open_count |-> 0,
                    config |-> cfg]

\* CircuitBreaker._transition_to(new_state)
transition_to(b, new_state) ==
    LET b1 == [b EXCEPT !.state = new_state] IN
    IF new_state = CLOSED THEN [b1 EXCEPT !.stats.consecutive_failures = 0]
    ELSE IF new_state = HALF_OPEN
         THEN [b1 EXCEPT !.half_open_count = 0, !.stats.consecutive_successes = 0]
         ELSE b1

\* _should_transition_to_half_open that ignores the recovery timeout (mutant)
should_transition_at_once(b, t) == b.state = OPEN

\* CircuitBreaker._should_transition_to_half_open()
should_transition_to_half_open(b, t) ==
    IF b.state # OPEN THEN FALSE
    ELSE IF b.stats.last_failure_time = -1 THEN TRUE
    ELSE t - b.stats.last_failure_time >= b.config.recovery_timeout

\* can_execute that admits probes without counting them (mutant)
can_execute_uncounted(b, t) ==
    LET b1 == IF should_transition_to_half_open(b, t)
              THEN [transition_to(b, HALF_OPEN) EXCEPT !.half_open_count = 0]
              ELSE b
    IN IF b1.state = CLOSED THEN [breaker |-> b1, admit |-> TRUE]
       ELSE IF b1.state = OPEN THEN [breaker |-> b1, admit |-> FALSE]
       ELSE IF b1.half_open_count < b1.config.half_open_requests
            THEN [breaker |-> b1, admit |-> TRUE]
            ELSE [breaker |-> b1, admit |-> FALSE]

\* can_execute that counts the callers it refuses as requests (mutant)
can_execute_counting_refusals(b, t) ==
    LET b1 == IF should_transition_to_half_open(b, t)
              THEN [transition_to(b, HALF_OPEN) EXCEPT !.half_open_count = 0]
              ELSE b
        refused == [breaker |-> [b1 EXCEPT !.stats.total_requests = @ + 1],
                    admit |-> FALSE]
    IN IF b1.state = CLOSED THEN [breaker |-> b1, admit |-> TRUE]
       ELSE IF b1.state = OPEN THEN refused
       ELSE IF b1.half_open_count < b1.config.half_open_requests
            THEN [breaker |-> [b1 EXCEPT !.half_open_count = @ + 1], admit |-> TRUE]
            ELSE refused

\* CircuitBreaker.can_execute(): the breaker after the call and whether it admits
can_execute(b, t) ==
    LET b1 == IF should_transition_to_half_open(b, t)
              THEN [transition_to(b, HALF_OPEN) EXCEPT !.half_open_count = 0]
              ELSE b
    IN IF b1.state = CLOSED THEN [breaker |-> b1, admit |-> TRUE]
       ELSE IF b1.state = OPEN THEN [breaker |-> b1, admit |-> FALSE]
       ELSE IF b1.half_open_count < b1.config.half_open_requests
            THEN [breaker |-> [b1 EXCEPT !.half_open_count = @ + 1], admit |-> TRUE]
            ELSE [breaker |-> b1, admit |-> FALSE]

\* record_success that closes from any state once enough successes are in (mutant)
record_success_any_state(b, t) ==
    LET b1 == [b EXCEPT !.stats.total_requests = @ + 1,
                        !.stats.successful_requests = @ + 1,
                        !.stats.consecutive_successes = @ + 1,
                        !.stats.consecutive_failures = 0]
    IN IF b1.stats.consecutive_successes >= b1.config.half_open_requests
       THEN transition_to(b1, CLOSED)
       ELSE b1

\* CircuitBreaker.record_success()
record_success(b, t) ==
    LET b1 == [b EXCEPT !.stats.total_requests = @ + 1,
                        !.stats.successful_requests = @ + 1,
                        !.stats.consecutive_successes = @ + 1,
                        !.stats.consecutive_failures = 0]
    IN IF b1.state = HALF_OPEN
          /\ b1.stats.consecutive_successes >= b1.config.half_open_requests
       THEN transition_to(b1, CLOSED)
       ELSE b1

\* record_failure that opens only above the threshold (mutant)
record_failure_above(b, t) ==
    LET b1 == [b EXCEPT !.stats.total_requests = @ + 1,
                        !.stats.failed_requests = @ + 1,
                        !.stats.consecutive_failures = @ + 1,
                        !.stats.consecutive_successes = 0,
                        !.stats.last_failure_time = t]
    IN IF b1.state = HALF_OPEN THEN transition_to(b1, OPEN)
       ELSE IF b1.state = CLOSED
               /\ b1.stats.consecutive_failures > b1.config.failure_threshold
            THEN transition_to(b1, OPEN)
            ELSE b1

\* record_failure that compares the total of failures with the threshold (mutant)
record_failure_total(b, t) ==
    LET b1 == [b EXCEPT !.stats.total_requests = @ + 1,
                        !.stats.failed_requests = @ + 1,
                        !.stats.consecutive_failures = @ + 1,
                        !.stats.consecutive_successes = 0,
                        !.stats.last_failure_time = t]
    IN IF b1.state = HALF_OPEN THEN transition_to(b1, OPEN)
       ELSE IF b1.state = CLOSED
               /\ b1.stats.failed_requests >= b1.config.failure_threshold
            THEN transition_to(b1, OPEN)
            ELSE b1

\* record_failure that keeps probing after a failed probe (mutant)
record_failure_keeps_probing(b, t) ==
    LET b1 == [b EXCEPT !.stats.total_requests = @ + 1,
                        !.stats.failed_requests = @ + 1,
                        !.stats.consecutive_failures = @ + 1,
                        !.stats.consecutive_successes = 0,
                        !.stats.last_failure_time = t]
    IN IF b1.state = CLOSED
          /\ b1.stats.consecutive_failures >= b1.config.failure_threshold
       THEN transition_to(b1, OPEN)
       ELSE b1

\* CircuitBreaker.record_failure()
record_failure(b, t) ==
    LET b1 == [b EXCEPT !.stats.total_requests = @ + 1,
                        !.stats.failed_requests = @ + 1,
                        !.stats.consecutive_failures = @ + 1,
                        !.stats.consecutive_successes = 0,
                        !.stats.last_failure_time = t]
    IN IF b1.state = HALF_OPEN THEN transition_to(b1, OPEN)
       ELSE IF b1.state = CLOSED
               /\ b1.stats.consecutive_failures >= b1.config.failure_threshold
            THEN transition_to(b1, OPEN)
            ELSE b1

\* CircuitBreaker.reset that keeps the statistics and the probe counter (mutant)
reset_state_only(b) == [b EXCEPT !.state = CLOSED]

\* CircuitBreaker.reset()
reset(b) == [b EXCEPT !.state = CLOSED, !.stats = NewStats, !.half_open_count = 0]

(***************************************************************************)
(* The breaker's callers.  RequestRouter.proxy_request (router.py) and     *)
(* with_circuit_breaker call can_execute, and an admitted request is in    *)
(* flight until it reports record_success or record_failure; any number    *)
(* of requests are in flight at once.  A request is a probe while it is    *)
(* one that can_execute admitted in the HALF_OPEN period still running.    *)
(***************************************************************************)
\* most requests admitted in one run
MaxRequests == 5
\* largest failure_threshold, recovery_timeout (ticks) and half_open_requests tried
MaxThreshold == 2
MaxRecovery == 2
MaxProbes == 2

\* models.py CircuitBreakerConfig: failure_threshold >= 1, recovery_timeout > 0,
\* half_open_requests >= 1
Configs == [failure_threshold : 1..MaxThreshold,
            recovery_timeout : 1..MaxRecovery,
            half_open_requests : 1..MaxProbes]

VARIABLES
    breaker,          \* the CircuitBreaker of one upstream service
    inflight,         \* admitted requests that have not reported yet: [probe, other]
    issued,           \* history: number of requests admitted so far
    cb_ret,           \* the last breaker call: its name, the state it found, what can_execute answered
    probes_admitted,  \* history: can_execute admissions in HALF_OPEN since HALF_OPEN was last entered
    probe_successes,  \* history: record_success calls of probes since HALF_OPEN was last entered
    fail_run,         \* history: record_failure calls since the last record_success, reset or construction
    reopened_at       \* history: time of the last record_failure received in HALF_OPEN (-1: none since reset)

breakerVars == <<breaker, inflight, issued, cb_ret, probes_admitted, probe_successes,
                 fail_run, reopened_at>>

Kinds == {"probe", "other"}

\* the requests in flight after one of `kind` reported and the breaker went from
\* state `from` to state `to`: leaving HALF_OPEN ends the period of its probes
InflightAfter(kind, from, to) ==
    LET f == [inflight EXCEPT ![kind] = @ - 1] IN
    IF from = HALF_OPEN /\ to # HALF_OPEN
    THEN [probe |-> 0, other |-> f.other + f.probe]
    ELSE f

\* router.py proxy_request, `can_execute, reason = await circuit.can_execute()`:
\* a new request asks for admission; CircuitOpenError ends a rejected one
CanExecute ==
    LET r == can_execute(breaker, now)
        entered == breaker.state # HALF_OPEN /\ r.breaker.state = HALF_OPEN
        probe == r.admit /\ r.breaker.state = HALF_OPEN
    IN /\ r.admit => issued < MaxRequests
       /\ breaker' = r.breaker
       /\ issued' = issued + (IF r.admit THEN 1 ELSE 0)
       /\ inflight' = IF probe THEN [inflight EXCEPT !.probe = @ + 1]
                      ELSE IF r.admit THEN [inflight EXCEPT !.other = @ + 1]
                      ELSE inflight
       /\ probes_admitted' = (IF entered THEN 0 ELSE probes_admitted)
                             + (IF probe THEN 1 ELSE 0)
       /\ probe_successes' = IF entered THEN 0 ELSE probe_successes
       /\ cb_ret' = [op |-> "can_execute", from |-> breaker.state, admitted |-> r.admit,
                     at |-> now]
       /\ UNCHANGED <<fail_run, reopened_at>>

\* router.py proxy_request, `await circuit.record_success()`: the upstream answered
RecordSuccess(kind) ==
    LET b == record_success(breaker, now) IN
    /\ inflight[kind] > 0
    /\ breaker' = b
    /\ inflight' = InflightAfter(kind, breaker.state, b.state)
    /\ probe_successes' = probe_successes + (IF kind = "probe" THEN 1 ELSE 0)
    /\ fail_run' = 0
    /\ cb_ret' = [op |-> "record_success", from |-> breaker.state, admitted |-> FALSE,
                 at |-> now]
    /\ UNCHANGED <<issued, probes_admitted, reopened_at>>

\* router.py proxy_request, `await circuit.record_failure()`: timeout, connection
\* error or another exception of the upstream call
RecordFailure(kind) ==
    LET b == record_failure(breaker, now) IN
    /\ inflight[kind] > 0
    /\ breaker' = b
    /\ inflight' = InflightAfter(kind, breaker.state, b.state)
    /\ fail_run' = fail_run + 1
    /\ reopened_at' = IF breaker.state = HALF_OPEN THEN now ELSE reopened_at
    /\ cb_ret' = [op |-> "record_failure", from |-> breaker.state, admitted |-> FALSE,
                 at |-> now]
    /\ UNCHANGED <<issued, probes_admitted, probe_successes>>

\* router.py proxy_request: an admitted request ends without reporting, when
\* `await request.body()` raises before the try block or the task is cancelled
\* (CancelledError is not an Exception)
Abandon(kind) ==
    /\ inflight[kind] > 0
    /\ inflight' = [inflight EXCEPT ![kind] = @ - 1]
    /\ cb_ret' = [op |-> "abandon", from |-> breaker.state, admitted |-> FALSE,
                 at |-> now]
    /\ UNCHANGED <<breaker, issued, probes_admitted, probe_successes, fail_run,
                   reopened_at>>

\* main.py POST /circuit-breakers/reset -> reset_all -> CircuitBreaker.reset()
ResetBreaker ==
    /\ breaker' = reset(breaker)
    /\ inflight' = [probe |-> 0, other |-> inflight.other + inflight.probe]
    /\ fail_run' = 0
    /\ reopened_at' = -1
    /\ cb_ret' = [op |-> "reset", from |-> breaker.state, admitted |-> FALSE,
                 at |-> now]
    /\ UNCHANGED <<issued, probes_admitted, probe_successes>>

(***************************************************************************)
(* The request pipeline: RateLimitMiddleware.dispatch (middleware.py), the *)
(* endpoints of main.py and RequestRouter.proxy_request (router.py).       *)
(* A request runs as one asyncio task.  Acquiring a free asyncio.Lock does *)
(* not suspend the task and no lock is held across a suspension, so a task *)
(* runs without interleaving from one suspension to the next; it suspends  *)
(* in call_next (on the way to the handler and back) and while it waits    *)
(* for the upstream.  Each action below is one such run.                   *)
(***************************************************************************)
\* most requests received in one run, and the last tick of a run of the pipeline
MaxArrivals == 3
MaxGatewayTime == 1

\* the requests in progress at once take these slots
Slots == {1, 2}

\* the clients that send requests
GatewayClients == {"a"}

\* str.startswith(prefix), on strings as sequences of characters
startswith(s, prefix) ==
    /\ Len(prefix) <= Len(s)
    /\ SubSeq(s, 1, Len(prefix)) = prefix

\* the request paths tried, by name
Paths == {"/metrics", "/circuit-breakers", "/api/v1/data", "/api/v1/bulk"}

\* the characters of a path or prefix
Chars(p) ==
    CASE p = "/health" -> <<"/", "h", "e", "a", "l", "t", "h">>
      [] p = "/metrics" -> <<"/", "m", "e", "t", "r", "i", "c", "s">>
      [] p = "/ready" -> <<"/", "r", "e", "a", "d", "y">>
      [] p = "/_internal" -> <<"/", "_", "i", "n", "t", "e", "r", "n", "a", "l">>
      [] p = "/circuit-breakers" ->
             <<"/", "c", "i", "r", "c", "u", "i", "t", "-", "b", "r", "e", "a", "k", "e", "r", "s">>
      [] p = "/api/" -> <<"/", "a", "p", "i", "/">>
      [] p = "/api/v1/" -> <<"/", "a", "p", "i", "/", "v", "1", "/">>
      [] p = "/api/v1/data" -> <<"/", "a", "p", "i", "/", "v", "1", "/", "d", "a", "t", "a">>
      [] p = "/api/v1/bulk" -> <<"/", "a", "p", "i", "/", "v", "1", "/", "b", "u", "l", "k">>

\* exempt_paths with the health prefix alone (mutant)
exempt_paths_health_only == <<"/health">>

\* middleware.py _is_exempt_path
exempt_paths == <<"/health", "/metrics", "/ready", "/_internal">>

is_exempt_path(path) ==
    \E k \in 1..Len(exempt_paths) : startswith(Chars(path), Chars(exempt_paths[k]))

\* config.py endpoint_costs, scaled to the capacities of rate_configs: the first
\* pattern that matches from the start of the path gives the cost
endpoint_costs == <<[path_pattern |-> "/api/v1/bulk", token_cost |-> 3],
                    [path_pattern |-> "/api/v1/", token_cost |-> 1]>>

\* middleware.py _get_token_cost
get_token_cost(path) ==
    LET hits == {k \in 1..Len(endpoint_costs) :
                    startswith(Chars(path), Chars(endpoint_costs[k].path_pattern))}
    IN IF hits = {} THEN 1
       ELSE endpoint_costs[CHOOSE k \in hits : \A j \in hits : k <= j].token_cost

\* main.py: the catch-all route /api/{path:path} goes to the proxy
is_proxied(path) == startswith(Chars(path), Chars("/api/"))

\* the result None
None == "none"

VARIABLES
    reqs,            \* the requests in progress, one per slot
    metrics,         \* MetricsCollector._metrics
    registry,        \* the keys of CircuitBreakerRegistry._breakers
    services,        \* the keys of the configured upstream_services
    tier_store,      \* ClientTierStore._tiers
    upstream_calls,  \* history: calls issued to the upstream
    arrived          \* history: requests received

gatewayVars == <<reqs, metrics, registry, services, tier_store, upstream_calls, arrived>>

\* ClientTierStore.get_tier
get_tier(c) == IF c \in DOMAIN tier_store THEN tier_store[c] ELSE FREE

\* the names a service can be configured or routed under
ServiceNames == {"default", "backup"}

\* most routing rules added to the router
MaxRoutes == 2

\* the patterns of the routing rules tried: a pattern matches a path from its start
RoutePatterns == {"/api/v1/", "/api/v1/bulk"}

VARIABLES
    route_patterns,  \* RequestRouter._route_patterns: the rules <<pattern, service_name>>
    route_ret        \* what the last call on the router did

routerVars == <<route_patterns, route_ret>>

\* the loop of resolve_service taking the last rule that matches (mutant)
RECURSIVE first_match_last(_, _)
first_match_last(rules, path) ==
    IF rules = << >> THEN None
    ELSE IF first_match_last(Tail(rules), path) # None
    THEN first_match_last(Tail(rules), path)
    ELSE IF startswith(Chars(path), Chars(Head(rules)[1])) THEN Head(rules)[2]
    ELSE None

\* the loop of resolve_service: the service of the first rule, in insertion order,
\* whose pattern matches the path (re.match: from the start of the path)
RECURSIVE first_match(_, _)
first_match(rules, path) ==
    IF rules = << >> THEN None
    ELSE IF startswith(Chars(path), Chars(Head(rules)[1])) THEN Head(rules)[2]
    ELSE first_match(Tail(rules), path)

\* router.py resolve_service: the first matching rule, else the service named
\* default if it is configured, else None
resolve_service(path) ==
    IF first_match(route_patterns, path) # None THEN first_match(route_patterns, path)
    ELSE IF "default" \in services THEN "default" ELSE None

\* what the upstream call of a request ends in: a response of some status whose
\* headers starlette can encode (latin-1) or cannot, a timeout, a failed
\* connection, another exception, or the cancellation of the waiting task
Outcomes == {"response", "unencodable", "timeout", "connect_error", "other_error",
             "cancelled"}
Statuses == {200, 500}

\* record_outcome that lets an exception other than a timeout or a failed
\* connection pass unrecorded (mutant)
record_outcome_known_errors(b, outcome, t) ==
    CASE outcome = "response" -> record_success(b, t)
      [] outcome = "unencodable" -> record_failure(record_success(b, t), t)
      [] outcome \in {"timeout", "connect_error"} -> record_failure(b, t)
      [] outcome \in {"other_error", "cancelled"} -> b

\* router.py proxy_request lines 162-194: the breaker after the calls the outcome
\* leads to.  Building the Response is inside the try block, after
\* record_success(): if it raises, `except Exception` records a failure as well.
record_outcome(b, outcome, t) ==
    CASE outcome = "response" -> record_success(b, t)
      [] outcome = "unencodable" -> record_failure(record_success(b, t), t)
      [] outcome \in {"timeout", "connect_error", "other_error"} -> record_failure(b, t)
      [] outcome = "cancelled" -> b

\* the breaker calls of record_outcome, in order
outcome_calls(outcome) ==
    CASE outcome = "response" -> <<"record_success">>
      [] outcome = "unencodable" -> <<"record_success", "record_failure">>
      [] outcome \in {"timeout", "connect_error", "other_error"} -> <<"record_failure">>
      [] outcome = "cancelled" -> << >>

\* what the exception, if any, is that leaves RequestRouter.proxy_request
raised_by(outcome) ==
    CASE outcome = "response" -> None
      [] outcome = "unencodable" -> "ValueError"
      [] outcome = "timeout" -> "UpstreamTimeoutError"
      [] outcome = "connect_error" -> "UpstreamConnectionError"
      [] outcome = "other_error" -> "Exception"
      [] outcome = "cancelled" -> "CancelledError"

\* main.py proxy_request lines 259-278: the status the endpoint answers an
\* exception of the router with; 0 when the exception leaves the endpoint
status_for(exc) ==
    CASE exc = "CircuitOpenError" -> 503
      [] exc = "UpstreamTimeoutError" -> 504
      [] exc = "UpstreamConnectionError" -> 502
      [] exc = "ValueError" -> 404
      [] OTHER -> 0

\* a slot with no request
Idle == [pc |-> "idle", client |-> "", path |-> "", exempt |-> FALSE, allowed |-> FALSE,
         remaining |-> 0, trace |-> << >>, outcome |-> None, raised |-> None,
         status |-> 0, headers |-> << >>]

\* request r ends with exception exc leaving the endpoint: call_next raises it in
\* dispatch, which has no handler for it, and the server answers 500; a
\* cancelled task answers nothing
Raise(r, exc) ==
    [r EXCEPT !.pc = "done", !.raised = exc,
              !.status = IF exc = "CancelledError" THEN 0 ELSE 500]

\* int(x) of a fraction <<numerator, denominator>> that is not negative
int(x) == x[1] \div x[2]

\* the 429 response without its X-RateLimit-Reset header (mutant)
RateLimitResponse_no_reset(r, retry_after, remaining, t) ==
    [r EXCEPT !.pc = "done", !.status = 429, !.remaining = remaining,
              !.trace = <<"check_rate_limit", "record_request">>,
              !.headers = ("Retry-After" :> int(retry_after) + 1)
                          @@ ("X-RateLimit-Remaining" :> remaining)]

\* middleware.py dispatch lines 99-136: request r answered 429, its metric
\* recorded, with the headers of the response (time.time() read as t)
RateLimitResponse(r, retry_after, remaining, t) ==
    [r EXCEPT !.pc = "done", !.status = 429, !.remaining = remaining,
              !.trace = <<"check_rate_limit", "record_request">>,
              !.headers = ("Retry-After" :> int(retry_after) + 1)
                          @@ ("X-RateLimit-Remaining" :> remaining)
                          @@ ("X-RateLimit-Reset" :> t + int(retry_after))]

\* middleware.py dispatch, from its start to call_next or to the 429 response
Dispatch(i, c, p) ==
    /\ reqs[i].pc \in {"idle", "done"}
    /\ \A j \in Slots : j < i => reqs[j].pc \notin {"idle", "done"}
    /\ arrived < MaxArrivals
    /\ arrived' = arrived + 1
    /\ LET r == [Idle EXCEPT !.client = c, !.path = p] IN
       IF is_exempt_path(p)
       THEN /\ reqs' = [reqs EXCEPT ![i] = [r EXCEPT !.pc = "handler", !.exempt = TRUE]]
            /\ UNCHANGED <<now, limiterVars, metrics>>
       ELSE /\ check_rate_limit(c, get_tier(c), get_token_cost(p))
            /\ IF ret'.allowed
               THEN /\ reqs' = [reqs EXCEPT ![i] =
                                   [r EXCEPT !.pc = "handler", !.allowed = TRUE,
                                             !.remaining = ret'.remaining,
                                             !.trace = <<"check_rate_limit">>]]
                    /\ UNCHANGED metrics
               ELSE /\ metrics' = Append(metrics,
                                     [client_id |-> c, path |-> p, status_code |-> 429,
                                      rate_limited |-> TRUE, service |-> None])
                    /\ reqs' = [reqs EXCEPT ![i] =
                                   RateLimitResponse(r, ret'.retry_after, ret'.remaining, now)]
    /\ UNCHANGED <<breakerVars, registry, services, tier_store, upstream_calls>>

\* the metric record dispatch appends for the response of request r
ResponseMetric(r) ==
    [client_id |-> r.client, path |-> r.path, status_code |-> r.status,
     rate_limited |-> FALSE, service |-> None]

\* middleware.py dispatch after call_next returned a response: an exempt request
\* returns it as it is; an admitted one gets its header and its metric record
Finish(r) ==
    IF r.exempt
    THEN [r EXCEPT !.pc = "done"]
    ELSE [r EXCEPT !.pc = "done",
                   !.headers = ("X-RateLimit-Remaining" :> r.remaining) @@ @,
                   !.trace = Append(@, "record_request")]

\* main.py: an endpoint other than the proxy reads the components and answers
\* 200, and dispatch finishes (nothing is written between the two)
AdminHandler(i) ==
    LET r == [reqs[i] EXCEPT !.status = 200, !.trace = Append(@, "handler")] IN
    /\ reqs[i].pc = "handler"
    /\ ~is_proxied(reqs[i].path)
    /\ reqs' = [reqs EXCEPT ![i] = Finish(r)]
    /\ metrics' = IF r.exempt THEN metrics ELSE Append(metrics, ResponseMetric(r))
    /\ UNCHANGED <<now, limiterVars, breakerVars, registry, services, tier_store,
                   upstream_calls, arrived>>

\* main.py proxy_request and router.py proxy_request up to the upstream call:
\* resolve the service, get its breaker, ask it for admission, read the body
\* (body_ok: request.body() returns) and issue the call
ProxyHandler(i, body_ok) ==
    LET r == [reqs[i] EXCEPT !.trace = Append(@, "handler")]
        target == resolve_service(r.path)
        g == can_execute(breaker, now)
    IN /\ r.pc = "handler"
       /\ is_proxied(r.path)
       /\ IF target = None
          THEN /\ reqs' = [reqs EXCEPT ![i] =
                                  [r EXCEPT !.pc = "respond", !.raised = "ValueError",
                                            !.status = status_for("ValueError")]]
               /\ UNCHANGED <<breakerVars, registry, upstream_calls>>
          ELSE /\ registry' = registry \cup {target}
               /\ breaker' = g.breaker
               /\ cb_ret' = [op |-> "can_execute", from |-> breaker.state,
                             admitted |-> g.admit, at |-> now]
               /\ UNCHANGED <<inflight, issued, probes_admitted, probe_successes,
                              fail_run, reopened_at>>
               /\ IF ~g.admit
                  THEN /\ reqs' = [reqs EXCEPT ![i] =
                                      [r EXCEPT !.pc = "respond",
                                                !.raised = "CircuitOpenError",
                                                !.status = status_for("CircuitOpenError"),
                                                !.headers = ("Retry-After" :> 30),
                                                !.trace = Append(@, "can_execute")]]
                       /\ UNCHANGED upstream_calls
                  ELSE IF body_ok
                  THEN /\ reqs' = [reqs EXCEPT ![i] =
                                      [r EXCEPT !.pc = "upstream",
                                                !.trace = @ \o <<"can_execute", "request">>]]
                       /\ upstream_calls' = upstream_calls + 1
                  ELSE /\ reqs' = [reqs EXCEPT ![i] =
                                      Raise([r EXCEPT !.trace = Append(@, "can_execute")],
                                            "ClientDisconnect")]
                       /\ UNCHANGED upstream_calls
       /\ UNCHANGED <<now, limiterVars, metrics, services, tier_store, arrived>>

\* router.py proxy_request lines 162-194 and main.py lines 259-278: the upstream
\* call ends, its outcome is recorded and the endpoint answers or raises
Upstream(i, outcome, status) ==
    LET r == reqs[i]
        exc == raised_by(outcome)
        r1 == [r EXCEPT !.outcome = outcome, !.trace = @ \o outcome_calls(outcome)]
    IN /\ r.pc = "upstream"
       /\ breaker' = record_outcome(breaker, outcome, now)
       /\ cb_ret' = IF outcome = "cancelled" THEN cb_ret
                    ELSE [op |-> outcome_calls(outcome)[Len(outcome_calls(outcome))],
                          from |-> breaker.state, admitted |-> FALSE, at |-> now]
       /\ reqs' = [reqs EXCEPT ![i] =
                      IF exc = None
                      THEN [r1 EXCEPT !.pc = "respond", !.status = status]
                      ELSE IF status_for(exc) # 0
                      THEN [r1 EXCEPT !.pc = "respond", !.raised = exc,
                                      !.status = status_for(exc)]
                      ELSE Raise(r1, exc)]
       /\ UNCHANGED <<inflight, issued, probes_admitted, probe_successes, fail_run,
                      reopened_at>>
       /\ UNCHANGED <<now, limiterVars, metrics, registry, services, tier_store,
                      upstream_calls, arrived>>

\* Respond that gives the charge back when the response is an error (mutant)
Respond_refunding(i) ==
    LET r == reqs[i]
        c == r.client
    IN /\ r.pc = "respond"
       /\ reqs' = [reqs EXCEPT ![i] = Finish(r)]
       /\ metrics' = IF r.exempt THEN metrics ELSE Append(metrics, ResponseMetric(r))
       /\ buckets' = IF r.status >= 400 /\ c \in DOMAIN buckets
                     THEN [buckets EXCEPT ![c].tokens =
                              Min(@ + get_token_cost(r.path), buckets[c].max_tokens)]
                     ELSE buckets
       /\ UNCHANGED <<now, client_tiers, ret, excess, burst, last_request, breakerVars, registry,
                      services, tier_store, upstream_calls, arrived>>

\* middleware.py dispatch after call_next returned the response of the proxy
Respond(i) ==
    LET r == reqs[i] IN
    /\ r.pc = "respond"
    /\ reqs' = [reqs EXCEPT ![i] = Finish(r)]
    /\ metrics' = IF r.exempt THEN metrics ELSE Append(metrics, ResponseMetric(r))
    /\ UNCHANGED <<now, limiterVars, breakerVars, registry, services, tier_store,
                   upstream_calls, arrived>>

(***************************************************************************)
(* The tier store beside the limiter (TierSpec).                           *)
(***************************************************************************)
\* main.py set_client_tier (POST /clients/{client_id}/tier): writes the store
set_client_tier(c, tier) ==
    /\ tier_store' = [x \in DOMAIN tier_store \cup {c} |->
                         IF x = c THEN tier ELSE tier_store[x]]
    /\ UNCHANGED <<reqs, metrics, registry, services, upstream_calls, arrived>>

\* middleware.py dispatch, the limiter's part: the check of a request of the
\* client to a rate-limited path, under the tier the store holds
dispatch_check(c, path) ==
    /\ ~is_exempt_path(path)
    /\ check_rate_limit(c, get_tier(c), get_token_cost(path))

(***************************************************************************)
(* One TokenBucket under consume calls of any cost (BucketSpec).           *)
(***************************************************************************)
\* largest capacity and refill rate of the bucket, largest cost of a call
MaxCapacity == 3
MaxRate == 2
MaxCost == 4

\* tb is the bucket, tb_ret what the last consume returned with the call it
\* answers (before: the bucket when the call began, tokens: the token count when
\* it returned, at: the time of the call), and waiting[cost] the latest rejection
\* of a consume of that cost with no admitted consume since
VARIABLES tb, tb_ret, waiting

bucketVars == <<tb, tb_ret, waiting>>

\* no rejection of the cost is outstanding
NoWait == [at |-> -1, retry_after |-> <<0, 1>>]

\* TokenBucket(tokens=max_tokens, max_tokens, refill_rate): last_refill is the
\* time of construction
TokenBucket(max_tokens, refill_rate, t) ==
    [tokens |-> max_tokens, max_tokens |-> max_tokens, refill_rate |-> refill_rate,
     last_refill |-> t]

\* bucket.consume(cost) at the current time
Consume(cost) ==
    LET res == consume(tb, cost, now) IN
    /\ tb' = res.bucket
    /\ tb_ret' = [op |-> "consume", cost |-> cost, before |-> tb,
                  success |-> res.success, retry_after |-> res.retry_after,
                  tokens |-> res.bucket.tokens, at |-> now]
    /\ waiting' = IF res.success
                  THEN [k \in 1..MaxCost |-> NoWait]
                  ELSE [waiting EXCEPT ![cost] = [at |-> now,
                                                  retry_after |-> res.retry_after]]

\* bucket.available_tokens at the current time
Available ==
    /\ tb' = available_tokens(tb, now)
    /\ tb_ret' = [op |-> "available", cost |-> 0, before |-> tb, success |-> TRUE,
                  retry_after |-> <<0, 1>>, tokens |-> tb'.tokens, at |-> now]
    /\ UNCHANGED waiting

\* a bucket of some capacity and rate, as the limiter constructs it
InitBucket ==
    /\ tb \in {TokenBucket(m, r, 0) : m \in 1..MaxCapacity, r \in 1..MaxRate}
    /\ tb_ret = [op |-> "none", cost |-> 0, before |-> tb, success |-> FALSE,
                 retry_after |-> <<0, 1>>, tokens |-> tb.tokens, at |-> 0]
    /\ waiting = [k \in 1..MaxCost |-> NoWait]

\* one fixed bucket
BucketAtRest == tb = TokenBucket(1, 1, 0)

(***************************************************************************)
(* A limiter constructed with any non-empty configuration map (ConfigSpec).*)
(***************************************************************************)
\* rate_map is the rate_configs argument of RateLimiter.__init__, lim the buckets
\* and stored tiers of that limiter, lim_ret what its last check did: the triple
\* it returned, or the exception it raised
VARIABLES rate_map, lim, lim_ret

configVars == <<rate_map, lim, lim_ret>>

\* the RateLimitConfig values tried: max_tokens and tokens_per_second are positive
RateLimitConfigs ==
    {[tokens_per_second |-> 1, max_tokens |-> 2], [tokens_per_second |-> 2, max_tokens |-> 3]}

\* the non-empty maps from tiers to configurations
RateMaps ==
    UNION {[ts -> RateLimitConfigs] : ts \in (SUBSET ClientTier) \ {{}}}

\* self._rate_configs.get(tier, self._rate_configs[ClientTier.FREE]): Python evaluates
\* the default argument before the call, so the subscript raises KeyError when FREE
\* has no entry, whether or not the tier has one
get_raises_KeyError(cfgs) == FREE \notin DOMAIN cfgs

\* the value of that expression when it does not raise
rate_configs_get(cfgs, tier) ==
    IF tier \in DOMAIN cfgs THEN cfgs[tier] ELSE cfgs[FREE]

NoLimRet ==
    [op |-> "none", client |-> "", raised |-> "none", allowed |-> FALSE,
     retry_after |-> <<0, 1>>, remaining |-> 0]

\* RateLimiter.check_rate_limit of a limiter constructed with rate_map: an exception
\* leaves the limiter as the statements before it left it
check_rate_limit_with(c, tier, cost) ==
    LET known == c \in DOMAIN lim.buckets IN
    IF get_raises_KeyError(rate_map) /\ (~known \/ lim.tiers[c] # tier)
    THEN /\ lim_ret' = [NoLimRet EXCEPT !.op = "check", !.client = c,
                                         !.raised = "KeyError"]
         /\ UNCHANGED <<rate_map, lim>>
    ELSE LET b0 == IF known THEN lim.buckets[c]
                   ELSE TokenBucket(rate_configs_get(rate_map, tier).max_tokens,
                                    rate_configs_get(rate_map, tier).tokens_per_second,
                                    now)
             stored == IF known THEN lim.tiers[c] ELSE tier
             b1 == IF stored # tier
                   THEN [b0 EXCEPT
                           !.max_tokens = rate_configs_get(rate_map, tier).max_tokens,
                           !.refill_rate =
                               rate_configs_get(rate_map, tier).tokens_per_second]
                   ELSE b0
             r == consume(b1, cost, now)
             b2 == available_tokens(r.bucket, now)
         IN /\ lim' = [buckets |-> [x \in DOMAIN lim.buckets \cup {c} |->
                                       IF x = c THEN b2 ELSE lim.buckets[x]],
                       tiers |-> [x \in DOMAIN lim.tiers \cup {c} |->
                                       IF x = c THEN tier ELSE lim.tiers[x]]]
            /\ lim_ret' = [op |-> "check", client |-> c, raised |-> "none",
                           allowed |-> r.success, retry_after |-> r.retry_after,
                           remaining |-> b2.tokens]
            /\ UNCHANGED rate_map

\* RateLimiter.__init__ with some non-empty map
InitConfig ==
    /\ rate_map \in RateMaps
    /\ lim = [buckets |-> << >>, tiers |-> << >>]
    /\ lim_ret = NoLimRet

\* the map of the other specifications
ConfigAtRest == rate_map = rate_configs

(***************************************************************************)
(* CircuitBreakerRegistry with several service names (RegistrySpec).       *)
(* In the pipeline the registry holds at most the breaker of `default`     *)
(* (registry, breaker); here the class is taken on its own.                *)
(***************************************************************************)
\* most requests a breaker is given between two resets
MaxUses == 2

\* the CircuitBreakerConfig values handed to get_or_create
RegistryConfigs ==
    {[failure_threshold |-> 1, recovery_timeout |-> 1, half_open_requests |-> 1],
     [failure_threshold |-> 2, recovery_timeout |-> 1, half_open_requests |-> 2]}

VARIABLES
    breakers,       \* CircuitBreakerRegistry._breakers: service_name -> CircuitBreaker
    created,        \* history: per name, the CircuitBreaker objects constructed
    first_config,   \* history: per registered name, the config of the first call
    using,          \* per name, the requests between can_execute and record_*
    reg_ret         \* the last call on the registry or on one of its breakers

registryVars == <<breakers, created, first_config, using, reg_ret>>

\* CircuitBreakerRegistry.get_or_create that constructs a breaker on every call
\* (mutant)
get_or_create_anew(bs, service_name, config) ==
    [x \in DOMAIN bs \cup {service_name} |->
        IF x = service_name THEN NewBreaker(config) ELSE bs[x]]

\* CircuitBreakerRegistry.get_or_create: _breakers after the call; the call returns
\* _breakers[service_name]
get_or_create(bs, service_name, config) ==
    IF service_name \notin DOMAIN bs
    THEN [x \in DOMAIN bs \cup {service_name} |->
             IF x = service_name THEN NewBreaker(config) ELSE bs[x]]
    ELSE bs

\* CircuitBreakerRegistry.reset_all: holds the registry lock and awaits reset() of
\* every breaker; no breaker lock is held while a task is suspended, so no await
\* of the loop suspends and the loop is one step
reset_all(bs) == [x \in DOMAIN bs |-> reset(bs[x])]

\* the value of a call, with the call: existed and object tell whether get_or_create
\* found the name and which object it returned (the k-th constructed for the name),
\* from gives the states of the breakers when reset_all began
NoRegRet ==
    [op |-> "none", name |-> "", config |-> [failure_threshold |-> 0, recovery_timeout |-> 0,
                                 half_open_requests |-> 0],
     existed |-> FALSE,
     object |-> 0, from |-> << >>, admitted |-> FALSE]

GetOrCreate(name, cfg) ==
    LET bs == get_or_create(breakers, name, cfg)
        constructed == name \notin DOMAIN breakers \/ bs[name] # breakers[name]
    IN /\ breakers' = bs
       /\ created' = [created EXCEPT ![name] = IF constructed THEN @ + 1 ELSE @]
       /\ first_config' = IF name \in DOMAIN first_config THEN first_config
                          ELSE [x \in DOMAIN first_config \cup {name} |->
                                   IF x = name THEN cfg ELSE first_config[x]]
       /\ reg_ret' = [NoRegRet EXCEPT !.op = "get_or_create", !.name = name,
                                      !.config = cfg,
                                      !.existed = name \in DOMAIN breakers,
                                      !.object = created'[name]]
       /\ UNCHANGED using

\* a task that holds the breaker of the name calls can_execute
CanExecuteOn(name) ==
    /\ name \in DOMAIN breakers
    /\ breakers[name].stats.total_requests + using[name] < MaxUses
    /\ LET g == can_execute(breakers[name], now) IN
       /\ breakers' = [breakers EXCEPT ![name] = g.breaker]
       /\ using' = [using EXCEPT ![name] = IF g.admit THEN @ + 1 ELSE @]
       /\ reg_ret' = [NoRegRet EXCEPT !.op = "can_execute", !.name = name,
                                      !.admitted = g.admit]
    /\ UNCHANGED <<created, first_config>>

\* a task that was admitted records the outcome of its request
RecordOn(name, ok) ==
    /\ name \in DOMAIN breakers
    /\ using[name] > 0
    /\ breakers' = [breakers EXCEPT ![name] =
                       IF ok THEN record_success(@, now) ELSE record_failure(@, now)]
    /\ using' = [using EXCEPT ![name] = @ - 1]
    /\ reg_ret' = [NoRegRet EXCEPT !.op = "record", !.name = name, !.admitted = ok]
    /\ UNCHANGED <<created, first_config>>

ResetAll ==
    /\ breakers' = reset_all(breakers)
    /\ reg_ret' = [NoRegRet EXCEPT !.op = "reset_all",
                                   !.from = [x \in DOMAIN breakers |-> breakers[x].state]]
    /\ UNCHANGED <<created, first_config, using>>

\* CircuitBreakerRegistry.__init__
InitRegistry ==
    /\ breakers = << >>
    /\ created = [x \in ServiceNames |-> 0]
    /\ first_config = << >>
    /\ using = [x \in ServiceNames |-> 0]
    /\ reg_ret = NoRegRet

(***************************************************************************)
(* RequestRouter with routing rules and several services (RouterSpec).     *)
(***************************************************************************)
\* the breaker configuration of every configured service
service_circuit_breaker ==
    [failure_threshold |-> 1, recovery_timeout |-> 1, half_open_requests |-> 1]

\* found and left are the registry as proxy_request found it and left it
NoRouteRet ==
    [op |-> "none", path |-> "", target |-> None, raised |-> "none", status |-> 0,
     found |-> << >>, left |-> << >>]

\* RequestRouter.add_route
add_route(pattern, service_name) ==
    /\ Len(route_patterns) < MaxRoutes
    /\ route_patterns' = Append(route_patterns, <<pattern, service_name>>)
    /\ route_ret' = [NoRouteRet EXCEPT !.op = "add_route"]

\* RequestRouter.proxy_request as far as the breaker: the service is resolved; an
\* unresolved or unconfigured service raises ValueError, which main.py answers
\* with 404; otherwise the breaker of the service is fetched and asked, and its
\* refusal raises CircuitOpenError
proxy_request(path) ==
    LET target == resolve_service(path) IN
    /\ UNCHANGED route_patterns
    /\ IF target = None \/ target \notin services
       THEN /\ route_ret' = [NoRouteRet EXCEPT !.op = "proxy_request", !.path = path,
                                               !.target = target,
                                               !.raised = "ValueError",
                                               !.status = status_for("ValueError"),
                                               !.found = breakers, !.left = breakers]
            /\ UNCHANGED registryVars
       ELSE LET bs == get_or_create(breakers, target, service_circuit_breaker)
                g == can_execute(bs[target], now)
            IN /\ bs[target].stats.total_requests + using[target] < MaxUses
               /\ breakers' = [bs EXCEPT ![target] = g.breaker]
               /\ created' = [created EXCEPT ![target] =
                                 IF target \in DOMAIN breakers THEN @ ELSE @ + 1]
               /\ first_config' =
                     IF target \in DOMAIN first_config THEN first_config
                     ELSE [x \in DOMAIN first_config \cup {target} |->
                              IF x = target THEN service_circuit_breaker
                              ELSE first_config[x]]
               /\ using' = [using EXCEPT ![target] = IF g.admit THEN @ + 1 ELSE @]
               /\ reg_ret' = [NoRegRet EXCEPT !.op = "can_execute", !.name = target,
                                              !.admitted = g.admit]
               /\ route_ret' = [NoRouteRet EXCEPT
                                  !.op = "proxy_request", !.path = path,
                                  !.target = target,
                                  !.raised = IF g.admit THEN "none"
                                             ELSE "CircuitOpenError",
                                  !.status = IF g.admit THEN 0
                                             ELSE status_for("CircuitOpenError"),
                                  !.found = breakers, !.left = breakers']

\* RequestRouter.__init__: no rule yet
InitRouter ==
    /\ route_patterns = << >>
    /\ route_ret = NoRouteRet

(***************************************************************************)
(* with_circuit_breaker around one breaker (WrapperSpec).                  *)
(***************************************************************************)
\* most calls of with_circuit_breaker in one run
MaxWrapped == 3

\* the ways func can end: it returns, it raises an Exception, or it raises a
\* BaseException that is no Exception (asyncio.CancelledError when the task is
\* cancelled while func waits, KeyboardInterrupt, SystemExit)
Endings == {"returns", "Exception", "BaseException"}

\* wrapped[i] is the call of with_circuit_breaker that task i makes: where it is,
\* whether a fallback was given, what can_execute answered and the statistics it
\* found and left, how often func was invoked, what was recorded, and how the call
\* ended; wrapped_started counts the calls
VARIABLES wrapped, wrapped_started

wrapperVars == <<wrapped, wrapped_started>>

NoCall ==
    [pc |-> "idle", fallback |-> FALSE, admitted |-> FALSE, found |-> NewStats,
     left |-> NewStats, invoked |-> 0, successes |-> 0, failures |-> 0,
     ending |-> "none", result |-> "none"]

\* with_circuit_breaker up to the call of func: can_execute, then the fallback or
\* CircuitOpenError when refused, and func invoked when admitted
CallWrapped(i, fallback) ==
    LET g == can_execute(breaker, now)
        c == [NoCall EXCEPT !.fallback = fallback, !.admitted = g.admit,
                            !.found = breaker.stats, !.left = g.breaker.stats]
    IN /\ wrapped[i].pc \in {"idle", "done"}
       /\ wrapped_started < MaxWrapped
       /\ wrapped_started' = wrapped_started + 1
       /\ breaker' = g.breaker
       /\ wrapped' = [wrapped EXCEPT ![i] =
                         IF g.admit
                         THEN [c EXCEPT !.pc = "func", !.invoked = 1]
                         ELSE [c EXCEPT !.pc = "done",
                                        !.result = IF fallback THEN "fallback"
                                                   ELSE "CircuitOpenError"]]
       /\ UNCHANGED <<inflight, issued, cb_ret, probes_admitted, probe_successes,
                      fail_run, reopened_at>>

\* with_circuit_breaker from the end of func: record_success and the result when
\* func returned; `except Exception` records the failure and re-raises; any other
\* exception passes through the try statement
FuncEnds(i, ending) ==
    /\ wrapped[i].pc = "func"
    /\ breaker' = CASE ending = "returns" -> record_success(breaker, now)
                    [] ending = "Exception" -> record_failure(breaker, now)
                    [] OTHER -> breaker
    /\ wrapped' = [wrapped EXCEPT ![i] =
                      [@ EXCEPT !.pc = "done", !.ending = ending,
                                !.successes = IF ending = "returns" THEN @ + 1 ELSE @,
                                !.failures = IF ending = "Exception" THEN @ + 1 ELSE @,
                                !.result = IF ending = "returns" THEN "result"
                                           ELSE "raised"]]
    /\ UNCHANGED <<wrapped_started, inflight, issued, cb_ret, probes_admitted,
                   probe_successes, fail_run, reopened_at>>

InitWrapper ==
    /\ wrapped = [i \in Slots |-> NoCall]
    /\ wrapped_started = 0

\* the variables of the specifications of single components
(***************************************************************************)
(* MetricsCollector: the latency log and its percentiles (metrics.py).     *)
(* Only the fields get_percentile_latency reads are kept: timestamp and    *)
(* latency_ms of each RequestMetric.                                       *)
(***************************************************************************)
MaxSamples == 3
MaxLatency == 3
MaxWindow == 2
\* MetricsCollector._retention_seconds, scaled to the model's clock
retention_seconds == 2

VARIABLES
    samples,    \* MetricsCollector._metrics
    pct_ret     \* the last get_percentile_latency call

percentileVars == <<samples, pct_ret>>

\* [m for m in ms if m.timestamp > cutoff]
newer_than(ms, cutoff) ==
    SelectSeq(ms, LAMBDA m : m.timestamp > cutoff)

\* MetricsCollector._cleanup_old_metrics
cleanup_old_metrics(ms, t) == newer_than(ms, t - retention_seconds)

\* MetricsCollector.record_request: append, then clean up every 1000th record
record_request(ms, t, latency_ms) ==
    IF Len(Append(ms, [timestamp |-> t, latency_ms |-> latency_ms])) % 1000 = 0
    THEN cleanup_old_metrics(Append(ms, [timestamp |-> t, latency_ms |-> latency_ms]), t)
    ELSE Append(ms, [timestamp |-> t, latency_ms |-> latency_ms])

\* the length of the window get_aggregated_metrics looks at: Python's
\* `window_seconds or self._retention_seconds` is window_seconds unless that is 0
window_of(window_seconds) ==
    IF window_seconds = 0 THEN retention_seconds ELSE window_seconds

\* MetricsCollector.get_aggregated_metrics, the latencies field
latencies_of(ms, t, window_seconds) ==
    [k \in 1..Len(newer_than(ms, t - window_of(window_seconds))) |->
        newer_than(ms, t - window_of(window_seconds))[k].latency_ms]

RECURSIVE insert(_, _)
\* x placed before the first larger element of the sorted sequence s
insert(s, x) ==
    IF s = << >> THEN <<x>>
    ELSE IF x < Head(s) THEN <<x>> \o s
    ELSE <<Head(s)>> \o insert(Tail(s), x)

RECURSIVE sorted(_)
\* Python's sorted() on a list of numbers
sorted(s) ==
    IF s = << >> THEN << >> ELSE insert(sorted(SubSeq(s, 1, Len(s) - 1)), s[Len(s)])

\* MetricsCollector.get_percentile_latency; int() of a non-negative quotient
\* is the floor, sequences are 1-based
get_percentile_latency(ms, t, percentile, window_seconds) ==
    IF latencies_of(ms, t, window_seconds) = << >> THEN 0
    ELSE sorted(latencies_of(ms, t, window_seconds))
            [Min((Len(latencies_of(ms, t, window_seconds)) * percentile) \div 100,
                 Len(latencies_of(ms, t, window_seconds)) - 1) + 1]

NoPctRet ==
    [op |-> "none", percentile |-> 0, window |-> 0, at |-> 0, found |-> << >>,
     value |-> 0]

\* a request's metric is recorded
RecordRequest(latency_ms) ==
    /\ Len(samples) < MaxSamples
    /\ samples' = record_request(samples, now, latency_ms)
    /\ pct_ret' = NoPctRet

\* a caller asks for a percentile
GetPercentile(percentile, window_seconds) ==
    /\ pct_ret' = [op |-> "percentile", percentile |-> percentile,
                   window |-> window_seconds, at |-> now, found |-> samples,
                   value |-> get_percentile_latency(samples, now, percentile,
                                                    window_seconds)]
    /\ UNCHANGED samples

\* MetricsCollector.__init__
InitPercentile ==
    /\ samples = << >>
    /\ pct_ret = NoPctRet

(***************************************************************************)
(* start() and stop() of RequestRouter and HealthChecker (router.py).      *)
(* HTTP clients and loop tasks are numbered in the order of creation; a    *)
(* reference of 0 is None.                                                 *)
(***************************************************************************)
MaxStarts == 3

Components == {"router", "checker"}

VARIABLES
    router_client,  \* RequestRouter._client
    checker,        \* HealthChecker: _running, _task, _client
    open_clients,   \* per component, the httpx.AsyncClient objects not closed
    loop_tasks,     \* the _check_loop tasks that have not ended
    started,        \* per component, the start() calls made
    life_ret        \* the last start() or stop() call

lifecycleVars == <<router_client, checker, open_clients, loop_tasks, started, life_ret>>

\* RequestRouter.start: a new client replaces the reference held
RouterStart ==
    /\ started["router"] < MaxStarts
    /\ started' = [started EXCEPT !["router"] = @ + 1]
    /\ router_client' = started["router"] + 1
    /\ open_clients' = [open_clients EXCEPT !["router"] = @ \cup {started["router"] + 1}]
    /\ life_ret' = [op |-> "start", component |-> "router"]
    /\ UNCHANGED <<checker, loop_tasks>>

\* RequestRouter.stop: the client referenced, if any, is closed and forgotten
RouterStop ==
    /\ open_clients' = [open_clients EXCEPT !["router"] = @ \ {router_client}]
    /\ router_client' = 0
    /\ life_ret' = [op |-> "stop", component |-> "router"]
    /\ UNCHANGED <<checker, loop_tasks, started>>

\* HealthChecker.start: a new client and a new loop task replace the
\* references held
CheckerStart ==
    /\ started["checker"] < MaxStarts
    /\ started' = [started EXCEPT !["checker"] = @ + 1]
    /\ checker' = [running |-> TRUE, task |-> started["checker"] + 1,
                   client |-> started["checker"] + 1]
    /\ open_clients' = [open_clients EXCEPT !["checker"] = @ \cup {started["checker"] + 1}]
    /\ loop_tasks' = loop_tasks \cup {started["checker"] + 1}
    /\ life_ret' = [op |-> "start", component |-> "checker"]
    /\ UNCHANGED router_client

\* HealthChecker.stop: the task referenced is cancelled and awaited, the client
\* referenced is closed; both references are kept
CheckerStop ==
    /\ checker' = [checker EXCEPT !.running = FALSE]
    /\ loop_tasks' = loop_tasks \ {checker.task}
    /\ open_clients' = [open_clients EXCEPT !["checker"] = @ \ {checker.client}]
    /\ life_ret' = [op |-> "stop", component |-> "checker"]
    /\ UNCHANGED <<router_client, started>>

\* HealthChecker._check_loop: a loop task wakes from its sleep and tests
\* self._running; it ends when the flag is down
LoopWakes(task) ==
    /\ task \in loop_tasks
    /\ loop_tasks' = IF checker.running THEN loop_tasks ELSE loop_tasks \ {task}
    /\ UNCHANGED <<router_client, checker, open_clients, started, life_ret>>

\* RequestRouter.__init__ and HealthChecker.__init__
InitLifecycle ==
    /\ router_client = 0
    /\ checker = [running |-> FALSE, task |-> 0, client |-> 0]
    /\ open_clients = [c \in Components |-> {}]
    /\ loop_tasks = {}
    /\ started = [c \in Components |-> 0]
    /\ life_ret = [op |-> "none", component |-> "none"]

(***************************************************************************)
(* The time a breaker has been OPEN since (circuit_breaker.py).  The code  *)
(* keeps no such field: it is history, kept by the steps of LateSpec.      *)
(***************************************************************************)
VARIABLES
    opened_at   \* history: when the breaker entered OPEN; -1 while it is not OPEN

lateVars == <<opened_at>>

\* opened_at after a step that takes the breaker from b to b2 at time t
OpenedAfter(b, b2, t) ==
    IF b2.state # OPEN THEN -1
    ELSE IF b.state = OPEN THEN opened_at ELSE t

\* CircuitBreaker.__init__: CLOSED
InitLate == opened_at = -1

(***************************************************************************)
(* What a deleted bucket held (rate_limiter.py).  The code forgets a       *)
(* bucket it deletes: it is history, kept by the steps of EvictSpec.       *)
(***************************************************************************)
VARIABLES
    evicted     \* history: per client, the bucket and tier deleted since its last check

evictVars == <<evicted>>

NoEvicted ==
    [valid |-> FALSE,
     bucket |-> [max_tokens |-> 0, tokens |-> 0, last_refill |-> 0, refill_rate |-> 0],
     tier |-> FREE]

\* evicted after the buckets of the clients in to_remove are deleted
EvictedAfter(to_remove) ==
    [c \in Clients |->
        IF c \in to_remove /\ c \in DOMAIN buckets
        THEN [valid |-> TRUE, bucket |-> buckets[c], tier |-> client_tiers[c]]
        ELSE evicted[c]]

\* the tokens the deleted bucket of client c would offer a check under `tier`
\* at time t, had it been kept
would_hold(c, tier, t) ==
    refill(update_tier(evicted[c].bucket, evicted[c].tier, tier), t).tokens

\* RateLimiter.__init__: no bucket was deleted
InitEvict == evicted = [c \in Clients |-> NoEvicted]

componentVars == <<percentileVars, lifecycleVars, lateVars, evictVars>>

unitVars == <<bucketVars, configVars, registryVars, wrapperVars, routerVars>>

\* the single components as one fixed construction
UnitsAtRest ==
    /\ BucketAtRest
    /\ ConfigAtRest

\* main.py lifespan: the components as constructed, the router started
InitGateway ==
    /\ reqs = [i \in Slots |-> Idle]
    /\ metrics = << >>
    /\ registry = {}
    /\ services \in SUBSET ServiceNames
    /\ tier_store = << >>
    /\ upstream_calls = 0
    /\ arrived = 0

\* CircuitBreaker.__init__ with some configuration
InitBreaker ==
    /\ breaker \in {NewBreaker(cfg) : cfg \in Configs}
    /\ inflight = [probe |-> 0, other |-> 0]
    /\ issued = 0
    /\ cb_ret = [op |-> "none", from |-> CLOSED, admitted |-> FALSE,
                 at |-> 0]
    /\ probes_admitted = 0
    /\ probe_successes = 0
    /\ fail_run = 0
    /\ reopened_at = -1

\* RateLimiter.__init__
InitLimiter ==
    /\ buckets = << >>
    /\ client_tiers = << >>
    /\ ret = NoRet
    /\ excess = [c \in Clients |-> 0]
    /\ burst = [c \in Clients |-> NoBurst]
    /\ last_request = [c \in Clients |-> -1]

Init ==
    /\ now = 0
    /\ InitLimiter
    /\ InitBreaker
    /\ InitGateway
    /\ InitBucket
    /\ InitConfig
    /\ InitRegistry
    /\ InitWrapper
    /\ InitRouter
    /\ InitPercentile
    /\ InitLifecycle
    /\ InitLate
    /\ InitEvict

vars == <<now, limiterVars, breakerVars, gatewayVars, unitVars, componentVars>>

\* the limiter under any sequence of its calls
NextLimiter ==
    \/ (Check /\ UNCHANGED <<componentVars, breakerVars, gatewayVars, unitVars>>)
    \/ (Status /\ UNCHANGED <<componentVars, breakerVars, gatewayVars, unitVars>>)
    \/ (Reset /\ UNCHANGED <<componentVars, breakerVars, gatewayVars, unitVars>>)
    \/ (Remove /\ UNCHANGED <<componentVars, breakerVars, gatewayVars, unitVars>>)
    \/ (Cleanup /\ UNCHANGED <<componentVars, breakerVars, gatewayVars, unitVars>>)
    \/ (Tick /\ UNCHANGED <<componentVars, breakerVars, gatewayVars, unitVars>>)

\* the breaker stays as constructed, whatever its configuration: one is enough
LimiterInit ==
    /\ Init
    /\ breaker.config = [failure_threshold |-> 1, recovery_timeout |-> 1,
                         half_open_requests |-> 1]
    /\ services = {"default"}
    /\ UnitsAtRest

LimiterSpec == LimiterInit /\ [][NextLimiter]_vars

\* one breaker under any interleaving of requests, with resets
NextBreaker ==
    \/ (CanExecute /\ UNCHANGED <<componentVars, now, limiterVars, gatewayVars, unitVars>>)
    \/ (\E kind \in Kinds : RecordSuccess(kind) /\ UNCHANGED <<componentVars, now, limiterVars, gatewayVars, unitVars>>)
    \/ (\E kind \in Kinds : RecordFailure(kind) /\ UNCHANGED <<componentVars, now, limiterVars, gatewayVars, unitVars>>)
    \/ (\E kind \in Kinds : Abandon(kind) /\ UNCHANGED <<componentVars, now, limiterVars, gatewayVars, unitVars>>)
    \/ (ResetBreaker /\ UNCHANGED <<componentVars, now, limiterVars, gatewayVars, unitVars>>)
    \/ (Tick /\ UNCHANGED <<componentVars, breakerVars, gatewayVars, unitVars>>)

\* the configured services stay as they are: one configuration is enough
BreakerInit ==
    /\ Init
    /\ services = {"default"}
    /\ UnitsAtRest

BreakerSpec == BreakerInit /\ [][NextBreaker]_vars

\* an admitted request ends: its upstream call is bounded by the client's
\* timeout, after which it has reported or has ended without reporting
RequestEnds ==
    \E kind \in Kinds :
       /\ RecordSuccess(kind) \/ RecordFailure(kind) \/ Abandon(kind)
       /\ UNCHANGED <<componentVars, now, limiterVars, gatewayVars, unitVars>>

\* a further request arrives and asks the breaker
RequestArrives ==
    CanExecute /\ UNCHANGED <<componentVars, now, limiterVars, gatewayVars, unitVars>>

\* the clock advances
TimePasses ==
    Tick /\ UNCHANGED <<componentVars, breakerVars, gatewayVars, unitVars>>

\* one breaker of threshold 1, recovery timeout 1 and one probe
BreakerFairInit ==
    /\ BreakerInit
    /\ breaker.config = [failure_threshold |-> 1, recovery_timeout |-> 1,
                         half_open_requests |-> 1]

\* the breaker under the event loop's scheduling: requests keep arriving, every
\* admitted request ends, time passes
BreakerFairSpec ==
    /\ BreakerFairInit
    /\ [][NextBreaker]_vars
    /\ WF_vars(RequestArrives)
    /\ WF_vars(RequestEnds)
    /\ WF_vars(TimePasses)

\* requests through the pipeline, in any interleaving.  The clock of such a run
\* advances while the breaker is OPEN, the wait that ends in its recovery; what
\* the passing of time does to buckets is LimiterSpec's.
NextGateway ==
    \/ (\E i \in Slots, c \in GatewayClients, p \in Paths : Dispatch(i, c, p) /\ UNCHANGED <<unitVars, componentVars>>)
    \/ (\E i \in Slots : AdminHandler(i) /\ UNCHANGED <<unitVars, componentVars>>)
    \/ (\E i \in Slots, body_ok \in BOOLEAN : ProxyHandler(i, body_ok) /\ UNCHANGED <<unitVars, componentVars>>)
    \/ (\E i \in Slots, outcome \in Outcomes, status \in Statuses : Upstream(i, outcome, status)
           /\ UNCHANGED <<unitVars, componentVars>>)
    \/ (\E i \in Slots : Respond(i) /\ UNCHANGED <<unitVars, componentVars>>)
    \/ (now < MaxGatewayTime /\ breaker.state = OPEN /\ Tick /\ UNCHANGED <<componentVars, breakerVars, gatewayVars, unitVars>>)

\* one breaker configuration, with or without a service named default
GatewayInit ==
    /\ Init
    /\ services \subseteq {"default"}
    /\ breaker.config = [failure_threshold |-> 1, recovery_timeout |-> 1,
                         half_open_requests |-> 1]
    /\ UnitsAtRest

GatewaySpec == GatewayInit /\ [][NextGateway]_vars

\* one bucket under consume calls and reads, at any times
NextBucket ==
    \/ (\E cost \in 1..MaxCost : Consume(cost)
           /\ UNCHANGED <<componentVars, now, limiterVars, breakerVars, gatewayVars, configVars, registryVars,
                          wrapperVars, routerVars>>)
    \/ (Available /\ UNCHANGED <<componentVars, now, limiterVars, breakerVars, gatewayVars, configVars, registryVars,
                          wrapperVars, routerVars>>)
    \/ (Tick /\ UNCHANGED <<componentVars, breakerVars, gatewayVars, unitVars>>)

\* checks of one client on a limiter constructed with any non-empty map
NextConfig ==
    \/ (\E c \in GatewayClients, tier \in ClientTier, cost \in Costs :
            check_rate_limit_with(c, tier, cost)
            /\ UNCHANGED <<componentVars, now, limiterVars, breakerVars, gatewayVars, bucketVars,
                           registryVars, wrapperVars, routerVars>>)
    \/ (Tick /\ UNCHANGED <<componentVars, breakerVars, gatewayVars, unitVars>>)

ConfigInit ==
    /\ Init
    /\ breaker.config = [failure_threshold |-> 1, recovery_timeout |-> 1,
                         half_open_requests |-> 1]
    /\ services = {"default"}
    /\ BucketAtRest

ConfigSpec == ConfigInit /\ [][NextConfig]_vars

\* calls on the registry and on its breakers, in any interleaving; the clock
\* advances as far as the recovery of an OPEN breaker takes
NextRegistry ==
    \/ (\E name \in ServiceNames, cfg \in RegistryConfigs : GetOrCreate(name, cfg)
           /\ UNCHANGED <<componentVars, now, limiterVars, breakerVars, gatewayVars, bucketVars,
                          configVars, wrapperVars, routerVars>>)
    \/ (\E name \in ServiceNames : CanExecuteOn(name)
           /\ UNCHANGED <<componentVars, now, limiterVars, breakerVars, gatewayVars, bucketVars,
                          configVars, wrapperVars, routerVars>>)
    \/ (\E name \in ServiceNames, ok \in BOOLEAN : RecordOn(name, ok)
           /\ UNCHANGED <<componentVars, now, limiterVars, breakerVars, gatewayVars, bucketVars,
                          configVars, wrapperVars, routerVars>>)
    \/ (ResetAll /\ UNCHANGED <<componentVars, now, limiterVars, breakerVars, gatewayVars, bucketVars,
                                configVars, wrapperVars, routerVars>>)
    \/ (now < MaxGatewayTime /\ Tick /\ UNCHANGED <<componentVars, breakerVars, gatewayVars, unitVars>>)

RegistrySpec == LimiterInit /\ [][NextRegistry]_vars

\* calls of with_circuit_breaker by concurrent tasks on one breaker of any
\* configuration
NextWrapper ==
    \/ (\E i \in Slots, fallback \in BOOLEAN : CallWrapped(i, fallback)
           /\ UNCHANGED <<componentVars, now, limiterVars, gatewayVars, bucketVars, configVars,
                          registryVars, routerVars>>)
    \/ (\E i \in Slots, ending \in Endings : FuncEnds(i, ending)
           /\ UNCHANGED <<componentVars, now, limiterVars, gatewayVars, bucketVars, configVars,
                          registryVars, routerVars>>)
    \/ (Tick /\ UNCHANGED <<componentVars, breakerVars, gatewayVars, unitVars>>)

WrapperSpec == BreakerInit /\ [][NextWrapper]_vars

\* rules added and requests proxied in any order, over any configured services;
\* admitted requests report their outcomes
NextRouter ==
    \/ (\E pattern \in RoutePatterns, name \in ServiceNames : add_route(pattern, name)
           /\ UNCHANGED <<componentVars, now, limiterVars, breakerVars, gatewayVars, bucketVars,
                          configVars, registryVars, wrapperVars>>)
    \/ (\E path \in {"/api/", "/api/v1/data", "/api/v1/bulk"} : proxy_request(path)
           /\ UNCHANGED <<componentVars, now, limiterVars, breakerVars, gatewayVars, bucketVars,
                          configVars, wrapperVars>>)
    \/ (\E name \in ServiceNames, ok \in BOOLEAN : RecordOn(name, ok)
           /\ UNCHANGED <<componentVars, now, limiterVars, breakerVars, gatewayVars, bucketVars,
                          configVars, wrapperVars, routerVars>>)

\* any set of configured services
RouterInit ==
    /\ Init
    /\ breaker.config = [failure_threshold |-> 1, recovery_timeout |-> 1,
                         half_open_requests |-> 1]
    /\ UnitsAtRest

RouterSpec == RouterInit /\ [][NextRouter]_vars

\* the limiter, the breaker and the services stay as constructed
BucketInit ==
    /\ Init
    /\ breaker.config = [failure_threshold |-> 1, recovery_timeout |-> 1,
                         half_open_requests |-> 1]
    /\ services = {"default"}
    /\ ConfigAtRest

BucketSpec == BucketInit /\ [][NextBucket]_vars

\* tier changes and requests of one client, and status reads, in any order
NextTier ==
    \/ (\E c \in GatewayClients, tier \in ClientTier : set_client_tier(c, tier)
           /\ UNCHANGED <<componentVars, now, limiterVars, breakerVars, unitVars>>)
    \/ (\E c \in GatewayClients, p \in Paths : dispatch_check(c, p)
           /\ UNCHANGED <<componentVars, breakerVars, gatewayVars, unitVars>>)
    \/ (Status /\ UNCHANGED <<componentVars, breakerVars, gatewayVars, unitVars>>)
    \/ (Tick /\ UNCHANGED <<componentVars, breakerVars, gatewayVars, unitVars>>)

TierSpec == LimiterInit /\ [][NextTier]_vars

\* latencies recorded and percentiles asked for as time passes
NextPercentile ==
    \/ (\E latency_ms \in 1..MaxLatency : RecordRequest(latency_ms)
           /\ UNCHANGED <<now, limiterVars, breakerVars, gatewayVars, unitVars, lifecycleVars, lateVars, evictVars>>)
    \/ (\E percentile \in {0, 50, 99, 100}, window_seconds \in 0..MaxWindow :
           GetPercentile(percentile, window_seconds)
           /\ UNCHANGED <<now, limiterVars, breakerVars, gatewayVars, unitVars, lifecycleVars, lateVars, evictVars>>)
    \/ (Tick /\ UNCHANGED <<breakerVars, gatewayVars, unitVars, componentVars>>)

PercentileSpec == LimiterInit /\ [][NextPercentile]_vars

\* the components started and stopped in any order, the loop tasks running
NextLifecycle ==
    \/ (RouterStart
           /\ UNCHANGED <<now, limiterVars, breakerVars, gatewayVars, unitVars, percentileVars, lateVars, evictVars>>)
    \/ (RouterStop
           /\ UNCHANGED <<now, limiterVars, breakerVars, gatewayVars, unitVars, percentileVars, lateVars, evictVars>>)
    \/ (CheckerStart
           /\ UNCHANGED <<now, limiterVars, breakerVars, gatewayVars, unitVars, percentileVars, lateVars, evictVars>>)
    \/ (CheckerStop
           /\ UNCHANGED <<now, limiterVars, breakerVars, gatewayVars, unitVars, percentileVars, lateVars, evictVars>>)
    \/ (\E task \in 1..MaxStarts : LoopWakes(task)
           /\ UNCHANGED <<now, limiterVars, breakerVars, gatewayVars, unitVars, percentileVars, lateVars, evictVars>>)

LifecycleSpec == LimiterInit /\ [][NextLifecycle]_vars

\* requests admitted, outcomes reported at any later time, the clock advancing
NextLate ==
    \/ (CanExecute /\ opened_at' = OpenedAfter(breaker, breaker', now)
           /\ UNCHANGED <<now, limiterVars, gatewayVars, unitVars, percentileVars,
                          lifecycleVars, evictVars>>)
    \/ (\E kind \in Kinds : RecordSuccess(kind)
           /\ opened_at' = OpenedAfter(breaker, breaker', now)
           /\ UNCHANGED <<now, limiterVars, gatewayVars, unitVars, percentileVars,
                          lifecycleVars, evictVars>>)
    \/ (\E kind \in Kinds : RecordFailure(kind)
           /\ opened_at' = OpenedAfter(breaker, breaker', now)
           /\ UNCHANGED <<now, limiterVars, gatewayVars, unitVars, percentileVars,
                          lifecycleVars, evictVars>>)
    \/ (Tick /\ UNCHANGED <<breakerVars, gatewayVars, unitVars, componentVars>>)

LateSpec == BreakerInit /\ [][NextLate]_vars

\* one client checked, removed and evicted in any order as time passes
NextEvict ==
    \/ (\E c \in GatewayClients, tier \in ClientTier, cost \in Costs :
           /\ check_rate_limit(c, tier, cost)
           /\ evicted' = [evicted EXCEPT ![c] = NoEvicted]
           /\ UNCHANGED <<breakerVars, gatewayVars, unitVars, percentileVars,
                          lifecycleVars, lateVars>>)
    \/ (\E c \in GatewayClients :
           /\ remove_client(c)
           /\ evicted' = EvictedAfter({c})
           /\ UNCHANGED <<breakerVars, gatewayVars, unitVars, percentileVars,
                          lifecycleVars, lateVars>>)
    \/ (\E max_idle \in 0..MaxIdle :
           /\ cleanup_inactive(max_idle)
           /\ evicted' = EvictedAfter({c \in DOMAIN buckets :
                                          now - buckets[c].last_refill > max_idle})
           /\ UNCHANGED <<breakerVars, gatewayVars, unitVars, percentileVars,
                          lifecycleVars, lateVars>>)
    \/ (Tick /\ UNCHANGED <<breakerVars, gatewayVars, unitVars, componentVars>>)

EvictSpec == LimiterInit /\ [][NextEvict]_vars

Next == NextLimiter \/ NextBreaker \/ NextGateway \/ NextBucket \/ NextTier \/ NextConfig
        \/ NextRegistry \/ NextWrapper \/ NextRouter \/ NextPercentile \/ NextLifecycle \/ NextLate \/ NextEvict

Spec == Init /\ [][Next]_vars

(***************************************************************************)
(* Properties of the rate limiter (LimiterSpec).                           *)
(***************************************************************************)

\* C1: for a client whose tier does not change and that is not reset, removed or
\* evicted, the token cost admitted in any interval [s, e] is at most
\* capacity + refill_rate * (e - s).  excess[c] is the largest value, over the
\* starts s since the client's bucket was last created, re-tiered or reset, of
\* (cost admitted in [s, now]) - refill_rate * (now - s): an admission adds its cost
\* to every such interval and a tick takes refill_rate from each and opens the
\* empty interval [now, now].  The bound holds for every interval ending now iff
\* excess[c] <= capacity, and every interval ends at the `now` of some state.
AdmittedWithinCapacityPlusRefill ==
    \A c \in DOMAIN buckets : excess[c] <= buckets[c].max_tokens

\* C1 witness: after time has passed and tokens were refilled, a client has used
\* the whole bound and its latest check was admitted
AdmittedBoundReached ==
    /\ now >= 2
    /\ ret.op = "check" /\ ret.allowed /\ ~ret.changed /\ ret.before >= 0
    /\ ret.client \in DOMAIN buckets
    /\ excess[ret.client] = buckets[ret.client].max_tokens
    /\ buckets[ret.client].last_refill = now

\* C2: N cost-1 checks of one client at one instant against a full bucket of
\* capacity C < N: exactly C admitted, N - C rejected, 0 tokens left
BurstAdmitsExactlyCapacity ==
    \A c \in Clients :
        (burst[c].valid /\ burst[c].adm + burst[c].rej > burst[c].cap) =>
            /\ burst[c].adm = burst[c].cap
            /\ burst[c].rej = (burst[c].adm + burst[c].rej) - burst[c].cap
            /\ c \in DOMAIN buckets
            /\ buckets[c].tokens = 0

\* C2 witness: a burst of MaxCalls calls on a bucket of smaller capacity
BurstLargerThanCapacity ==
    \E c \in Clients :
        /\ burst[c].valid
        /\ burst[c].adm + burst[c].rej = MaxCalls
        /\ burst[c].cap < MaxCalls
        /\ burst[c].rej >= 1

\* C3: every existing bucket has 0 <= tokens <= capacity after every operation
TokensWithinCapacity ==
    \A c \in DOMAIN buckets :
        /\ 0 <= buckets[c].tokens
        /\ buckets[c].tokens <= buckets[c].max_tokens

\* C3 witness: a check moved a client holding more tokens than the new tier's
\* capacity to that smaller tier
TierLoweredBelowTokens ==
    /\ ret.op = "check" /\ ret.changed
    /\ ret.client \in DOMAIN buckets
    /\ ret.before > buckets[ret.client].max_tokens

\* C4 as stated: a rejected check leaves the client's token count not lower than
\* it was before the call, and returns the bucket's token count as remaining
RejectedCheckKeepsTokens ==
    (ret.op = "check" /\ ~ret.allowed) =>
        /\ ret.client \in DOMAIN buckets
        /\ buckets[ret.client].tokens >= ret.before
        /\ ret.remaining = buckets[ret.client].tokens

\* C4 amended: a rejected check consumes nothing: the client's token count after
\* the call is not lower than before the call or, when the call moves the client
\* to a tier whose capacity is below that count, than the new capacity (a bucket
\* the call creates is still full); remaining is the bucket's token count
RejectedCheckConsumesNothing ==
    (ret.op = "check" /\ ~ret.allowed) =>
        /\ ret.client \in DOMAIN buckets
        /\ buckets[ret.client].tokens >= Min(ret.before, buckets[ret.client].max_tokens)
        /\ ret.before = -1 => buckets[ret.client].tokens = buckets[ret.client].max_tokens
        /\ ret.remaining = buckets[ret.client].tokens

\* C4 witness: a check was rejected while the bucket held tokens
RejectedWithTokensLeft ==
    /\ ret.op = "check" /\ ~ret.allowed
    /\ ret.before >= 1
    /\ ret.remaining >= 1

(***************************************************************************)
(* Properties of the circuit breaker (BreakerSpec).  cb_ret names the call *)
(* that led to the current breaker state; reset() restarts the histories   *)
(* fail_run and reopened_at.                                               *)
(***************************************************************************)

\* C5: can_execute admits a request on a breaker it finds OPEN only if
\* recovery_timeout has elapsed since last_failure_time, and then the breaker is
\* HALF_OPEN when the call returns
OpenAdmitsOnlyAfterRecoveryTimeout ==
    (cb_ret.op = "can_execute" /\ cb_ret.from = OPEN /\ cb_ret.admitted) =>
        /\ breaker.state = HALF_OPEN
        /\ breaker.stats.last_failure_time # -1
        /\ cb_ret.at - breaker.stats.last_failure_time >= breaker.config.recovery_timeout

\* C5 witness: a request is admitted on an OPEN breaker just as the timeout ends
OpenAdmittedAtRecoveryTimeout ==
    /\ cb_ret.op = "can_execute" /\ cb_ret.from = OPEN /\ cb_ret.admitted
    /\ breaker.config.recovery_timeout = 2
    /\ cb_ret.at - breaker.stats.last_failure_time = 2

\* C6: in HALF_OPEN, can_execute has admitted at most half_open_requests callers
\* since HALF_OPEN was entered (a further admission would exceed the count)
HalfOpenAdmitsAtMostProbes ==
    breaker.state = HALF_OPEN => probes_admitted <= breaker.config.half_open_requests

\* C6 witness: all probes of a HALF_OPEN period are admitted and a further caller
\* is rejected
HalfOpenRejectsFurtherCaller ==
    /\ breaker.state = HALF_OPEN
    /\ breaker.config.half_open_requests = 2
    /\ probes_admitted = 2
    /\ cb_ret.op = "can_execute" /\ cb_ret.from = HALF_OPEN /\ ~cb_ret.admitted

\* C7: while CLOSED, consecutive_failures < failure_threshold
ClosedBelowThreshold ==
    breaker.state = CLOSED =>
        breaker.stats.consecutive_failures < breaker.config.failure_threshold

\* C7 witness: a breaker that opened and closed again from HALF_OPEN is CLOSED one
\* failure short of the threshold
ClosedAgainWithFailures ==
    /\ breaker.state = CLOSED
    /\ breaker.config.failure_threshold = 2
    /\ breaker.stats.consecutive_failures = 1
    /\ breaker.stats.failed_requests >= 3
    /\ breaker.stats.successful_requests >= 1

\* C8: a CLOSED breaker opens on a record_failure call, exactly on the one that
\* makes failure_threshold failures in a row since the last record_success; a
\* record_success while CLOSED zeroes consecutive_failures and keeps it CLOSED
ClosedOpensAtThreshold ==
    /\ (cb_ret.from = CLOSED /\ breaker.state = OPEN) =>
           (cb_ret.op = "record_failure" /\ fail_run = breaker.config.failure_threshold)
    /\ (cb_ret.op = "record_failure" /\ cb_ret.from = CLOSED
            /\ fail_run >= breaker.config.failure_threshold) => breaker.state = OPEN
    /\ (cb_ret.op = "record_success" /\ cb_ret.from = CLOSED) =>
           (breaker.state = CLOSED /\ breaker.stats.consecutive_failures = 0)

\* C8 witness: failure, success, then failure_threshold failures open the breaker
OpenedAfterSuccessAndFailures ==
    /\ cb_ret.op = "record_failure" /\ cb_ret.from = CLOSED
    /\ breaker.state = OPEN
    /\ breaker.config.failure_threshold = 2
    /\ breaker.stats.failed_requests = 3
    /\ breaker.stats.successful_requests = 1

\* C9: a record_success closes a HALF_OPEN breaker only when half_open_requests
\* probes of that HALF_OPEN period have reported success
HalfOpenClosesAfterProbeSuccesses ==
    (cb_ret.op = "record_success" /\ cb_ret.from = HALF_OPEN /\ breaker.state = CLOSED) =>
        probe_successes >= breaker.config.half_open_requests

\* C10: a record_failure received in HALF_OPEN opens the breaker, and a
\* can_execute made less than recovery_timeout after that failure is rejected
HalfOpenFailureReopens ==
    /\ (cb_ret.op = "record_failure" /\ cb_ret.from = HALF_OPEN) => breaker.state = OPEN
    /\ (cb_ret.op = "can_execute" /\ reopened_at >= 0 /\ cb_ret.at >= reopened_at
            /\ cb_ret.at - reopened_at < breaker.config.recovery_timeout) =>
           ~cb_ret.admitted

\* C10 witness: a caller is rejected one tick after a failed probe reopened the
\* breaker
RejectedAfterReopen ==
    /\ cb_ret.op = "can_execute" /\ ~cb_ret.admitted
    /\ breaker.state = OPEN
    /\ reopened_at >= 0
    /\ cb_ret.at = reopened_at + 1
    /\ breaker.config.recovery_timeout = 2

\* C11: the only state changes of a breaker are CLOSED->OPEN, OPEN->HALF_OPEN,
\* HALF_OPEN->CLOSED and HALF_OPEN->OPEN, and any state->CLOSED by reset(): each
\* call leaves the state it found or makes one of these changes
OnlyDocumentedTransitions ==
    \/ breaker.state = cb_ret.from
    \/ <<cb_ret.from, breaker.state>> \in
           {<<CLOSED, OPEN>>, <<OPEN, HALF_OPEN>>, <<HALF_OPEN, CLOSED>>, <<HALF_OPEN, OPEN>>}
    \/ (cb_ret.op = "reset" /\ breaker.state = CLOSED)

\* C11 witness: a request admitted before the breaker opened reports success while
\* it is OPEN, with successes enough to close a HALF_OPEN breaker, and it stays OPEN
LateSuccessLeavesOpen ==
    /\ cb_ret.op = "record_success" /\ cb_ret.from = OPEN
    /\ breaker.state = OPEN
    /\ breaker.stats.consecutive_successes >= breaker.config.half_open_requests

(***************************************************************************)
(* Properties of the request pipeline (GatewaySpec).                       *)
(***************************************************************************)

\* C12: when the breaker refuses a proxied request, no upstream call is issued for
\* it, neither the breaker's counters nor its state change, and the request is
\* answered 503 with a Retry-After header
RefusalTouchesNothing ==
    /\ [](\A i \in Slots :
            reqs[i].raised = "CircuitOpenError" =>
                /\ "request" \notin {reqs[i].trace[k] : k \in DOMAIN reqs[i].trace}
                /\ reqs[i].status = 503
                /\ "Retry-After" \in DOMAIN reqs[i].headers)
    /\ [][\A i \in Slots :
            (reqs[i].pc = "handler" /\ reqs'[i].raised = "CircuitOpenError") =>
                /\ breaker' = breaker
                /\ upstream_calls' = upstream_calls]_vars

\* C12 witness: a request refused by a HALF_OPEN breaker whose probe is out has
\* got its answer
RefusedWhileProbing ==
    \E i \in Slots :
        /\ reqs[i].pc = "done" /\ reqs[i].raised = "CircuitOpenError"
        /\ breaker.state = HALF_OPEN
        /\ cb_ret.op = "can_execute" /\ cb_ret.from = HALF_OPEN

\* C13: an upstream call that returns an HTTP response, whatever its status, is
\* recorded with the breaker as one success and never as a failure, so that it
\* never moves a CLOSED breaker to OPEN
ResponsesRecordedAsSuccess ==
    [][\A i \in Slots :
          (reqs[i].pc = "upstream" /\ reqs'[i].outcome \in {"response", "unencodable"}) =>
              /\ breaker'.stats.successful_requests = breaker.stats.successful_requests + 1
              /\ breaker'.stats.failed_requests = breaker.stats.failed_requests
              /\ ~(breaker.state = CLOSED /\ breaker'.state = OPEN)]_vars

\* C14: a proxied request whose upstream call times out records exactly one
\* breaker failure and is answered 504; one whose connection fails records exactly
\* one failure and is answered 502; any other exception of the upstream call
\* records one failure and is raised again
UpstreamErrorsRecordOneFailure ==
    /\ [](\A i \in Slots :
            /\ reqs[i].outcome = "timeout" =>
                   reqs[i].status = 504 /\ reqs[i].pc \in {"respond", "done"}
            /\ reqs[i].outcome = "connect_error" =>
                   reqs[i].status = 502 /\ reqs[i].pc \in {"respond", "done"}
            /\ reqs[i].outcome = "other_error" =>
                   reqs[i].raised = "Exception" /\ reqs[i].pc = "done")
    /\ [][\A i \in Slots :
            (/\ reqs[i].pc = "upstream"
             /\ reqs'[i].outcome \in {"timeout", "connect_error", "other_error"}) =>
                /\ breaker'.stats.failed_requests = breaker.stats.failed_requests + 1
                /\ breaker'.stats.total_requests = breaker.stats.total_requests + 1
                /\ breaker'.stats.successful_requests = breaker.stats.successful_requests]_vars

\* C14 witness: after a timeout answered 504, an upstream call ended in another
\* exception and was raised again, two failures in all
TimeoutThenOtherError ==
    \E i \in Slots :
        /\ reqs[i].pc = "done" /\ reqs[i].outcome = "other_error"
        /\ breaker.stats.failed_requests = 2
        /\ Len(metrics) = 1 /\ metrics[1].status_code = 504

\* C15: a non-exempt request whose charge is denied is answered 429 with
\* Retry-After, X-RateLimit-Remaining and X-RateLimit-Reset headers, and its
\* handler is never invoked: no breaker is consulted, no upstream call is made
DeniedAnswered429 ==
    /\ [](\A i \in Slots :
            (reqs[i].pc # "idle" /\ ~reqs[i].exempt /\ ~reqs[i].allowed) =>
                /\ reqs[i].pc = "done" /\ reqs[i].status = 429
                /\ {"Retry-After", "X-RateLimit-Remaining", "X-RateLimit-Reset"}
                       \subseteq DOMAIN reqs[i].headers
                /\ reqs[i].trace = <<"check_rate_limit", "record_request">>)
    /\ [][\A i \in Slots :
            (reqs'[i] # reqs[i] /\ reqs'[i].pc # "idle"
             /\ ~reqs'[i].exempt /\ ~reqs'[i].allowed) =>
                /\ ret'.op = "check" /\ ~ret'.allowed
                /\ UNCHANGED <<breakerVars, registry, upstream_calls>>]_vars

\* C15 witness: the third request of a client whose bucket of two tokens the first
\* two emptied is answered 429
DeniedOnEmptyBucket ==
    \E i \in Slots :
        /\ reqs[i].pc = "done" /\ reqs[i].status = 429
        /\ reqs[i].path = "/api/v1/data"
        /\ TokensOf(reqs[i].client) = 0
        /\ arrived = 3

\* C16: for every non-exempt proxied request the bucket is charged, then the
\* breaker consulted, then the upstream called, then the outcome recorded; and no
\* later step of a request (breaker denial, missing route, upstream failure)
\* gives its charge back
ChargeThenBreakerThenUpstream ==
    /\ [](\A i \in Slots :
            (reqs[i].pc # "idle" /\ ~reqs[i].exempt /\ is_proxied(reqs[i].path)) =>
                LET tr == reqs[i].trace
                    StepRank(step) ==
                        CASE step = "check_rate_limit" -> 1
                          [] step = "handler" -> 2
                          [] step = "can_execute" -> 3
                          [] step = "request" -> 4
                          [] step \in {"record_success", "record_failure"} -> 5
                          [] step = "record_request" -> 6
                IN
                /\ tr # << >> /\ tr[1] = "check_rate_limit"
                /\ \A j, k \in DOMAIN tr :
                      j < k => \/ StepRank(tr[j]) < StepRank(tr[k])
                               \/ (tr[j] = "record_success" /\ tr[k] = "record_failure"))
    /\ [][(\E i \in Slots : reqs[i].pc \in {"handler", "upstream", "respond"}
                            /\ reqs'[i] # reqs[i])
              => buckets' = buckets]_vars

\* C16 witness: one request went through every step, its upstream call timed out,
\* and the token it was charged is gone
ChargedThenTimedOut ==
    \E i \in Slots :
        /\ reqs[i].pc = "done" /\ reqs[i].status = 504
        /\ reqs[i].trace = <<"check_rate_limit", "handler", "can_execute", "request",
                             "record_failure", "record_request">>
        /\ arrived = 1
        /\ TokensOf(reqs[i].client) = ConfigFor(FREE).max_tokens - 1

MetricsEndpointRateLimited ==
    \A i \in Slots :
        (reqs[i].pc = "done" /\ reqs[i].path = "/metrics") =>
            /\ \E k \in DOMAIN reqs[i].trace : reqs[i].trace[k] = "check_rate_limit"
            /\ \/ reqs[i].status = 429
               \/ /\ reqs[i].status = 200
                  /\ "X-RateLimit-Remaining" \in DOMAIN reqs[i].headers

\* C19: no request to an endpoint of the admin surface (every endpoint but the
\* proxy) is charged against a bucket or answered 429
AdminSurfaceNeverCharged ==
    \A i \in Slots :
        (reqs[i].pc # "idle" /\ ~is_proxied(reqs[i].path)) =>
            /\ \A k \in DOMAIN reqs[i].trace : reqs[i].trace[k] # "check_rate_limit"
            /\ reqs[i].status # 429

\* C20: every request to a non-exempt path that ends, whatever its outcome
\* (429, a response of the handler, circuit open, no route, an exception of the
\* handler that is mapped to no response), has appended exactly one metric record
OneMetricPerRequest ==
    \A i \in Slots :
        (reqs[i].pc = "done" /\ ~is_exempt_path(reqs[i].path)
         /\ reqs[i].raised # "CancelledError") =>
            Cardinality({k \in DOMAIN reqs[i].trace :
                            reqs[i].trace[k] = "record_request"}) = 1

(***************************************************************************)
(* Properties of one token bucket (BucketSpec).                            *)
(***************************************************************************)

\* C21: a consume of cost c on a bucket that holds t tokens after the refill is
\* admitted if and only if t >= c; when admitted the bucket holds t - c and
\* retry_after is 0.
ConsumeAdmitsIffEnoughTokens ==
    tb_ret.op = "consume" =>
        LET b == tb_ret.before
            t == Min(b.max_tokens,
                     b.tokens + (tb_ret.at - b.last_refill) * b.refill_rate)
        IN /\ tb_ret.success <=> t >= tb_ret.cost
           /\ tb_ret.success =>
                 /\ tb_ret.tokens = t - tb_ret.cost
                 /\ tb_ret.retry_after = <<0, 1>>
           /\ ~tb_ret.success => tb_ret.tokens = t

\* C21 witness: after a refill, a consume of exactly the tokens held was admitted
\* and left the bucket empty
ConsumedExactlyTheRest ==
    /\ tb_ret.op = "consume"
    /\ tb_ret.success
    /\ tb_ret.tokens = 0
    /\ tb_ret.before.tokens < tb_ret.cost
    /\ tb_ret.at > tb_ret.before.last_refill

(***************************************************************************)
(* Further properties of the rate limiter (LimiterSpec).                   *)
(***************************************************************************)

\* C22: the first check for a client without a bucket creates a full bucket with
\* the capacity and refill rate of the supplied tier, or of FREE when that tier has
\* no configuration: the call returns remaining = capacity - cost when the cost is
\* within the capacity, and is rejected with the bucket still full otherwise.
FirstCheckCreatesFullBucket ==
    (ret.op = "check" /\ ret.before = -1) =>
        /\ ret.client \in DOMAIN buckets
        /\ ret.client \in DOMAIN client_tiers
        /\ LET tier == client_tiers[ret.client]
               cfg == IF tier \in DOMAIN rate_configs
                      THEN rate_configs[tier] ELSE rate_configs[FREE]
           IN /\ buckets[ret.client].max_tokens = cfg.max_tokens
              /\ buckets[ret.client].refill_rate = cfg.tokens_per_second
              /\ ret.count <= cfg.max_tokens =>
                    /\ ret.allowed
                    /\ ret.remaining = cfg.max_tokens - ret.count
              /\ ret.count > cfg.max_tokens =>
                    /\ ~ret.allowed
                    /\ ret.remaining = cfg.max_tokens

\* C22 witness: a first check under a tier without configuration was admitted from
\* a bucket of FREE's capacity
FirstCheckOfUnconfiguredTier ==
    /\ ret.op = "check"
    /\ ret.before = -1
    /\ ret.client \in DOMAIN client_tiers
    /\ client_tiers[ret.client] \notin DOMAIN rate_configs
    /\ ret.allowed
    /\ ret.remaining = rate_configs[FREE].max_tokens - ret.count

\* C23 (as claimed; violated): once a client's tier is set, the next status of
\* the client reports the capacity of the tier the store holds for it, without a
\* further request of the client.  Every check in TierSpec is made under the
\* store's tier, so a status that reports another capacity is one that a tier
\* change did not reach.
StatusReportsStoredTier ==
    [][(ret'.op = "status" /\ ret'.allowed /\ now' = now /\ tier_store' = tier_store)
          => ret'.count = ConfigFor(get_tier(ret'.client)).max_tokens]_vars

\* C24: reset of a known client returns true and leaves a bucket of which a status
\* that follows reads available_tokens = max_tokens, whatever it held before; reset
\* and remove of an unknown client return false and leave buckets and stored tiers
\* as they were.
ResetFillsAndUnknownIsUntouched ==
    /\ []((ret.op = "reset" /\ ret.allowed) =>
             /\ ret.client \in DOMAIN buckets
             /\ available_tokens(buckets[ret.client], now).tokens
                    = buckets[ret.client].max_tokens)
    /\ [][(ret'.op \in {"reset", "remove"} /\ now' = now) =>
             /\ ret'.allowed <=> ret'.client \in DOMAIN buckets
             /\ ret'.op = "reset" /\ ret'.allowed => client_tiers' = client_tiers
             /\ ~ret'.allowed => buckets' = buckets /\ client_tiers' = client_tiers]_vars

\* C24 witness: a reset returned true for a premium client whose bucket was empty,
\* while another client is unknown
ResetOfDrainedPremiumClient ==
    /\ ret.op = "reset"
    /\ ret.allowed
    /\ ret.before = 0
    /\ ret.client \in DOMAIN client_tiers
    /\ client_tiers[ret.client] = "premium"
    /\ buckets[ret.client].tokens = rate_configs["premium"].max_tokens
    /\ burst[ret.client] = NoBurst
    /\ excess[ret.client] = 0
    /\ \E c \in Clients \ DOMAIN buckets : TRUE

(***************************************************************************)
(* Properties of a limiter constructed with any map (ConfigSpec).          *)
(***************************************************************************)

\* C25 (as claimed; violated): for every client, tier, cost and non-empty
\* configuration map the limiter is constructed with, check returns its triple and
\* raises nothing.
CheckNeverRaises ==
    lim_ret.op = "check" => lim_ret.raised = "none"

\* C26: a check (under the stored tier or another one), status, reset or remove
\* call for one client leaves every other client as it was: present or absent, with
\* the same token count, capacity, refill rate, last refill and stored tier.
ClientsAreIndependent ==
    [][(ret'.op \in {"check", "status", "reset", "remove"} /\ now' = now) =>
          \A other \in Clients \ {ret'.client} :
             /\ (other \in DOMAIN buckets') <=> (other \in DOMAIN buckets)
             /\ (other \in DOMAIN client_tiers') <=> (other \in DOMAIN client_tiers)
             /\ other \in DOMAIN buckets => buckets'[other] = buckets[other]
             /\ other \in DOMAIN client_tiers =>
                    client_tiers'[other] = client_tiers[other]]_vars

\* C26 witness: a client whose bucket holds tokens is admitted while the bucket of
\* another client, of another tier, is empty
AdmittedBesideExhaustedClient ==
    /\ ret.op = "check"
    /\ ret.allowed
    /\ ret.before > 0
    /\ \E other \in DOMAIN buckets \ {ret.client} :
          /\ buckets[other].tokens = 0
          /\ client_tiers[other] # client_tiers[ret.client]

(***************************************************************************)
(* Further properties of one token bucket (BucketSpec).                    *)
(***************************************************************************)

\* C27 (as claimed; violated): when a consume of cost c was rejected with
\* retry_after = r, a consume of the same cost made at least r later, with no
\* admitted consume in between, is admitted -- for every cost and every bucket.
\* retry_after is the fraction <<tokens_needed, refill_rate>>, so "at least r
\* later" is elapsed * refill_rate >= tokens_needed.
RetryAfterIsHonoured ==
    [][(/\ tb_ret'.op = "consume"
        /\ now' = now
        /\ waiting[tb_ret'.cost].at >= 0
        /\ (now - waiting[tb_ret'.cost].at) * waiting[tb_ret'.cost].retry_after[2]
              >= waiting[tb_ret'.cost].retry_after[1])
          => tb_ret'.success]_vars

(***************************************************************************)
(* Eviction (LimiterSpec).                                                 *)
(***************************************************************************)

\* C28 (as claimed; violated): cleanup_inactive(max_idle) removes exactly the
\* clients whose last check call is more than max_idle ago and keeps every other
\* client; it returns the number removed, and buckets and stored tiers are left
\* for the same clients.
CleanupRemovesExactlyTheIdle ==
    [][\A max_idle \in 0..MaxIdle :
          cleanup_inactive(max_idle) =>
             /\ DOMAIN buckets' =
                   {c \in DOMAIN buckets : now - last_request[c] <= max_idle}
             /\ DOMAIN client_tiers' = DOMAIN buckets'
             /\ ret'.count = Cardinality(DOMAIN buckets \ DOMAIN buckets')]_vars

(***************************************************************************)
(* Properties of the breaker registry (RegistrySpec).                      *)
(***************************************************************************)

\* C29: get_or_create is idempotent.  In any interleaving of calls, at most one
\* breaker is ever constructed for a name, the registry holds it under that name
\* with the configuration of the first call; a call for a registered name returns
\* that same object and changes nothing, whatever configuration it passes, and a
\* call for a new name adds a fresh breaker and leaves the others alone.
GetOrCreateIsIdempotent ==
    /\ [](\A n \in ServiceNames :
             /\ created[n] <= 1
             /\ (n \in DOMAIN breakers) <=> (created[n] = 1)
             /\ n \in DOMAIN breakers =>
                   /\ n \in DOMAIN first_config
                   /\ breakers[n].config = first_config[n])
    /\ [][(reg_ret'.op = "get_or_create" /\ now' = now) =>
             /\ reg_ret'.object = 1
             /\ reg_ret'.existed <=> reg_ret'.name \in DOMAIN breakers
             /\ reg_ret'.existed => breakers' = breakers
             /\ DOMAIN breakers' = DOMAIN breakers \cup {reg_ret'.name}
             /\ ~reg_ret'.existed => breakers'[reg_ret'.name] = NewBreaker(reg_ret'.config)
             /\ \A n \in DOMAIN breakers \ {reg_ret'.name} :
                   breakers'[n] = breakers[n]]_vars

\* C29 witness: a call with another configuration found a breaker that is OPEN
\* with requests recorded, while a request of that breaker is still under way
GetOrCreateOnOpenBreaker ==
    /\ reg_ret.op = "get_or_create"
    /\ reg_ret.existed
    /\ reg_ret.config # breakers[reg_ret.name].config
    /\ breakers[reg_ret.name].state = OPEN
    /\ breakers[reg_ret.name].stats.failed_requests > 0
    /\ using[reg_ret.name] > 0

\* C30: after reset_all every registered breaker, whatever its state was, is CLOSED
\* with total, successful, failed, consecutive-failure and consecutive-success
\* counters and the probe counter at zero, keeps its configuration, and admits the
\* next can_execute; reset_all can always run to its end, whatever requests of the
\* breakers are under way.
ResetAllClosesEveryBreaker ==
    /\ reg_ret.op = "reset_all" =>
          /\ DOMAIN breakers = DOMAIN reg_ret.from
          /\ \A n \in DOMAIN breakers :
                /\ breakers[n].state = CLOSED
                /\ breakers[n].stats.total_requests = 0
                /\ breakers[n].stats.successful_requests = 0
                /\ breakers[n].stats.failed_requests = 0
                /\ breakers[n].stats.consecutive_failures = 0
                /\ breakers[n].stats.consecutive_successes = 0
                /\ breakers[n].half_open_count = 0
                /\ breakers[n].config = first_config[n]
                /\ can_execute(breakers[n], now).admit
    /\ ENABLED ResetAll

\* C30 witness: reset_all ran over one OPEN and one HALF_OPEN breaker while a
\* request admitted by one of them had not yet recorded its outcome
ResetAllOverOpenAndHalfOpen ==
    /\ reg_ret.op = "reset_all"
    /\ \E n \in DOMAIN reg_ret.from : reg_ret.from[n] = OPEN
    /\ \E n \in DOMAIN reg_ret.from : reg_ret.from[n] = HALF_OPEN
    /\ \E n \in ServiceNames : using[n] > 0

(***************************************************************************)
(* Properties of with_circuit_breaker (WrapperSpec).                       *)
(***************************************************************************)

\* C31 (as claimed; violated): a finished call of with_circuit_breaker invoked func
\* if and only if can_execute admitted it; admitted, it recorded exactly one
\* success and no failure when func returned, and exactly one failure and no
\* success when func raised; refused, it left the breaker's counters as it found
\* them and ended with the fallback's result, or with CircuitOpenError when no
\* fallback was given.
WrappedCallRecordsOneOutcome ==
    \A i \in Slots :
       wrapped[i].pc = "done" =>
          /\ (wrapped[i].invoked = 1) <=> wrapped[i].admitted
          /\ wrapped[i].invoked <= 1
          /\ (wrapped[i].admitted /\ wrapped[i].ending = "returns") =>
                /\ wrapped[i].successes = 1
                /\ wrapped[i].failures = 0
                /\ wrapped[i].result = "result"
          /\ (wrapped[i].admitted /\ wrapped[i].ending # "returns") =>
                /\ wrapped[i].successes = 0
                /\ wrapped[i].failures = 1
                /\ wrapped[i].result = "raised"
          /\ ~wrapped[i].admitted =>
                /\ wrapped[i].left = wrapped[i].found
                /\ wrapped[i].successes = 0
                /\ wrapped[i].failures = 0
                /\ wrapped[i].result = IF wrapped[i].fallback THEN "fallback"
                                       ELSE "CircuitOpenError"

(***************************************************************************)
(* Properties of the router (RouterSpec).                                  *)
(***************************************************************************)

\* C32: a path resolves to the service of the rule of least index whose pattern
\* matches the path from its start; with no matching rule, to the service named
\* default if it is configured; otherwise to none, and then the request fails with
\* ValueError, answered 404, and the registry stays as it was: no breaker is
\* created or asked.  A resolved and configured service has its breaker asked.
RoutingTakesFirstMatch ==
    route_ret.op = "proxy_request" =>
        LET hits == {k \in 1..Len(route_patterns) :
                        startswith(Chars(route_ret.path), Chars(route_patterns[k][1]))}
            expected == IF hits # {}
                        THEN route_patterns[CHOOSE k \in hits : \A j \in hits : k <= j][2]
                        ELSE IF "default" \in services THEN "default" ELSE None
        IN /\ route_ret.target = expected
           /\ expected \notin services =>
                 /\ route_ret.raised = "ValueError"
                 /\ route_ret.status = 404
                 /\ route_ret.left = route_ret.found
           /\ expected \in services =>
                 /\ route_ret.raised # "ValueError"
                 /\ expected \in DOMAIN route_ret.left
                 /\ \A n \in DOMAIN route_ret.found \ {expected} :
                       route_ret.left[n] = route_ret.found[n]

\* C32 witness: two rules of different services match the path and the request
\* went to the breaker of the first one
TwoRulesMatchFirstWins ==
    /\ route_ret.op = "proxy_request"
    /\ Len(route_patterns) = 2
    /\ startswith(Chars(route_ret.path), Chars(route_patterns[1][1]))
    /\ startswith(Chars(route_ret.path), Chars(route_patterns[2][1]))
    /\ route_patterns[1][2] # route_patterns[2][2]
    /\ route_ret.target = route_patterns[1][2]
    /\ route_ret.raised = "none"

(***************************************************************************)
(* Further properties of the request pipeline (GatewaySpec).               *)
(***************************************************************************)

\* C33 (as claimed; violated): every 429 response of the pipeline carries the
\* header X-RateLimit-Remaining: 0, whatever the token cost of the endpoint and
\* whatever the bucket held when the charge was rejected.
DeniedReportsZeroRemaining ==
    \A i \in Slots :
       (reqs[i].pc = "done" /\ reqs[i].status = 429) =>
          /\ "X-RateLimit-Remaining" \in DOMAIN reqs[i].headers
          /\ reqs[i].headers["X-RateLimit-Remaining"] = 0

\* C34 (as claimed; violated): the metric recorded for an admitted request that
\* was proxied to an upstream service, and so carries the status the upstream
\* answered, names that service in its service field.
ProxiedMetricNamesService ==
    \A k \in DOMAIN metrics :
       (/\ ~metrics[k].rate_limited
        /\ is_proxied(metrics[k].path)
        /\ metrics[k].status_code \in Statuses)
          => metrics[k].service = "default"

(***************************************************************************)
(* Latency percentiles (PercentileSpec).                                   *)
(***************************************************************************)

\* C35 (as claimed; violated): for every percentile p in 0..100 and every
\* window, get_percentile_latency returns 0 when no record is younger than the
\* window, and otherwise the element at index min(floor(n*p/100), n-1) of the
\* sorted latencies of the n records in the window, which lies between the
\* smallest and the largest of them.  The element at index k of the sorted
\* list is the value v with at most k records below it and more than k at or
\* below it.
PercentileIsOrderStatisticOfWindow ==
    pct_ret.op = "percentile" =>
       LET inWindow == {k \in DOMAIN pct_ret.found :
                           pct_ret.found[k].timestamp > pct_ret.at - pct_ret.window}
           n == Cardinality(inWindow)
           index == Min((n * pct_ret.percentile) \div 100, n - 1)
           below(v) == Cardinality({k \in inWindow : pct_ret.found[k].latency_ms < v})
           upTo(v) == Cardinality({k \in inWindow : pct_ret.found[k].latency_ms <= v})
       IN  IF inWindow = {} THEN pct_ret.value = 0
           ELSE /\ \E k \in inWindow : pct_ret.value = pct_ret.found[k].latency_ms
                /\ below(pct_ret.value) <= index
                /\ index < upTo(pct_ret.value)
                /\ \A k \in inWindow :
                      (\A j \in inWindow : pct_ret.found[k].latency_ms
                                               <= pct_ret.found[j].latency_ms)
                         => pct_ret.found[k].latency_ms <= pct_ret.value
                /\ \A k \in inWindow :
                      (\A j \in inWindow : pct_ret.found[j].latency_ms
                                               <= pct_ret.found[k].latency_ms)
                         => pct_ret.value <= pct_ret.found[k].latency_ms

(***************************************************************************)
(* Component lifecycle (LifecycleSpec).                                    *)
(***************************************************************************)

\* C36 (as claimed; violated): start() and stop() of the router and of the
\* health checker are idempotent: whatever calls were made, at most one
\* health-check loop task is alive and each component has at most one HTTP
\* client open, and when the last call on a component was stop() it has no
\* client open and, for the health checker, no loop task alive.
StartStopAreIdempotent ==
    /\ Cardinality(loop_tasks) <= 1
    /\ \A c \in Components : Cardinality(open_clients[c]) <= 1
    /\ \A c \in Components :
          (life_ret.op = "stop" /\ life_ret.component = c) => open_clients[c] = {}
    /\ (life_ret.op = "stop" /\ life_ret.component = "checker") => loop_tasks = {}

(***************************************************************************)
(* Outcome reporting of proxied requests (GatewaySpec).                    *)
(***************************************************************************)

\* C37 (as claimed; violated): every proxied request that can_execute admitted
\* has, once its handler is over, reported exactly one outcome to the breaker:
\* its trace holds one record_success or one record_failure, never both and
\* never none, also when reading the body failed, when the request was
\* cancelled while waiting for the upstream, or when building the response
\* failed.
AdmittedRequestReportsOnce ==
    \A i \in Slots :
       (/\ reqs[i].pc \notin {"idle", "handler", "upstream"}
        /\ \E k \in DOMAIN reqs[i].trace : reqs[i].trace[k] = "can_execute"
        /\ reqs[i].raised # "CircuitOpenError")
          => Cardinality({k \in DOMAIN reqs[i].trace :
                             reqs[i].trace[k] \in {"record_success", "record_failure"}}) = 1

(***************************************************************************)
(* Progress of the breaker (BreakerFairSpec).                              *)
(***************************************************************************)

\* C38 (as claimed; violated): a breaker never stays in HALF_OPEN rejecting
\* for ever: whenever it is HALF_OPEN with all half_open_requests probes
\* admitted, it eventually is CLOSED or OPEN or has a probe slot free for a
\* further request, even if an admitted probe never reports.
HalfOpenEventuallyMoves ==
    (breaker.state = HALF_OPEN
        /\ breaker.half_open_count >= breaker.config.half_open_requests)
    ~> (breaker.state # HALF_OPEN
        \/ breaker.half_open_count < breaker.config.half_open_requests)

(***************************************************************************)
(* Late outcomes (LateSpec).                                               *)
(***************************************************************************)

\* C39 (as claimed; violated): an outcome reported while the breaker is OPEN
\* (by a request admitted before it opened) leaves it OPEN, and does not
\* postpone recovery: a can_execute made on the OPEN breaker at least
\* recovery_timeout after it entered OPEN is admitted as a probe and makes the
\* breaker HALF_OPEN.
LateOutcomesDoNotPostponeRecovery ==
    [][/\ ((\E kind \in Kinds : RecordSuccess(kind) \/ RecordFailure(kind))
              /\ breaker.state = OPEN) => breaker'.state = OPEN
       /\ (CanExecute /\ breaker.state = OPEN
              /\ now - opened_at >= breaker.config.recovery_timeout)
             => (cb_ret'.admitted /\ breaker'.state = HALF_OPEN)]_vars

(***************************************************************************)
(* Eviction and removal (EvictSpec).                                       *)
(***************************************************************************)

\* C40 (as claimed; violated): eviction and removal never give a client extra
\* tokens: when a client whose bucket was deleted by cleanup_inactive or
\* remove_client makes its next check, the tokens available to that check (what
\* it left plus what it took) are no more than the deleted bucket would have
\* held at that time.
EvictionGivesNoExtraTokens ==
    [][\A c \in GatewayClients, tier \in ClientTier, cost \in Costs :
          (check_rate_limit(c, tier, cost) /\ evicted[c].valid)
             => ret'.remaining + (IF ret'.allowed THEN cost ELSE 0)
                   <= would_hold(c, tier, now)]_vars

====
